---------------------------- MODULE Spec2Model ----------------------------
(***************************************************************************)
(* Model of the m3u-content-manager code, of the server:                    *)
(*   - StreamingM3UParser (src/src/app/api/m3u/parse/route.ts)             *)
(*   - POST /api/m3u/parse chunk loop (same file)                          *)
(*   - generateM3UContent and its helpers (download route)                 *)
(*   - GET /api/m3u/download, the relay (download route)                   *)
(*   - POST /api/m3u/download, the generate endpoint (download route)      *)
(* and of the page, the M3UPlayer component with its parseM3U              *)
(* (src/unnamed/part_000).                                                 *)
(*                                                                         *)
(* A JavaScript string is modelled as a sequence of code points (Nat), so  *)
(* that splitting, trimming, prefix tests and the regular expressions of   *)
(* the source are computed character by character.                         *)
(***************************************************************************)
EXTENDS Integers, Sequences, FiniteSets, TLC

VARIABLES
    channels,      \* StreamingM3UParser.channels
    currentInfo,   \* StreamingM3UParser.currentInfo
    buffer,        \* StreamingM3UParser.buffer
    channelId,     \* StreamingM3UParser.channelId
    input,         \* the playlist text handed to the parser, chunk by chunk
    pos,           \* number of characters of input fed so far
    pc,            \* position of the caller: "feeding", "done", ...
    lastReturn,    \* return value of the most recent parse / finalize call
    parseReturns,  \* concatenation of the return values of the run's parse calls
    run,           \* parse endpoint: number of the request being served
    issued,        \* parse endpoint: issued[r] is the list of ids sent in response r
    shape,         \* how the input was built (the generator's entries, the info line's parts)
    crlfCut,       \* some chunk boundary of the run fell between a CR and its LF
    file,          \* POST /api/m3u/parse: the uploaded file (formData.get('file'))
    offset,        \* POST /api/m3u/parse: offset of the chunk loop
    response,      \* the response of the endpoint being served
    request,       \* GET /api/m3u/download: the caller's request (url, filename, headers)
    targetUrl,     \* GET /api/m3u/download: new URL(urlParam)
    outbound,      \* GET /api/m3u/download: the fetch calls issued so far, in order
    upstream,      \* GET /api/m3u/download: what fetch resolved to
    trail,         \* GET /api/m3u/download: the steps of the handler executed so far
    view,                  \* M3UPlayer: "upload", "categories" or "detail"
    selectedCategory,      \* M3UPlayer: name of the open category, or null
    currentPage,           \* M3UPlayer: page of the detail view
    searchQuery,           \* M3UPlayer: text of the search box
    debouncedSearchQuery,  \* M3UPlayer: useDebounce(searchQuery, 300)
    isLoading,             \* M3UPlayer: an upload is being read
    reading,               \* M3UPlayer: the files of the handleFileUpload calls in flight
    timers,                \* M3UPlayer: number of pending setTimeout(setView("categories"), 500)
    parsedChannels         \* the return value of the page's parseM3U

vars == <<channels, currentInfo, buffer, channelId, input, pos, pc, lastReturn,
          parseReturns, run, issued, crlfCut, shape, file, offset, response,
          request, targetUrl, outbound, upstream, trail,
          view, selectedCategory, currentPage, searchQuery, debouncedSearchQuery,
          isLoading, reading, timers, parsedChannels>>

\* the variables of the relay, and their value while no relay request is served
relayVars == <<request, targetUrl, outbound, upstream, trail>>

RelayIdle ==
    /\ request = "none"
    /\ targetUrl = "none"
    /\ outbound = <<>>
    /\ upstream = "none"
    /\ trail = <<>>

\* the variables of the page, and their value when the component is mounted
pageVars == <<view, selectedCategory, currentPage, searchQuery, debouncedSearchQuery,
              isLoading, reading, timers, parsedChannels>>

PageIdle ==
    /\ view = "upload"
    /\ selectedCategory = <<-1>>
    /\ currentPage = 1
    /\ searchQuery = <<>>
    /\ debouncedSearchQuery = <<>>
    /\ isLoading = FALSE
    /\ reading = <<>>
    /\ timers = 0
    /\ parsedChannels = <<>>

---------------------------------------------------------------------------
(* Bounds of the model *)

\* number of lines of a short playlist text (lines of every kind)
MaxLines == 3
\* number of lines of a long playlist text (few kinds of line, several entries)
MaxLongLines == 5
\* number of requests served by the parse endpoint
MaxRuns == 2

---------------------------------------------------------------------------
(* JavaScript string helpers *)

\* `undefined`: a value no string equals
Undefined == <<-1>>

\* truthiness of an optional string: neither undefined nor ''
Truthy(s) == s # Undefined /\ s # <<>>

\* WhiteSpace and LineTerminator code points: what \s matches and trim() strips
WhiteSpace == {9, 10, 11, 12, 13, 32, 160, 5760, 8232, 8233, 8239, 8287, 12288, 65279}
                \cup (8192..8202)

\* LineTerminator code points: what `.` does not match
LineTerminator == {10, 13, 8232, 8233}

\* \d
Digit == 48..57

\* String.prototype.startsWith
StartsWith(s, p) == Len(s) >= Len(p) /\ SubSeq(s, 1, Len(p)) = p

\* number of leading characters of s that belong to set
RECURSIVE LeadingIn(_, _)
LeadingIn(s, set) ==
    IF s # <<>> /\ Head(s) \in set THEN 1 + LeadingIn(Tail(s), set) ELSE 0

\* number of trailing characters of s that belong to set
RECURSIVE TrailingIn(_, _)
TrailingIn(s, set) ==
    IF s # <<>> /\ s[Len(s)] \in set
    THEN 1 + TrailingIn(SubSeq(s, 1, Len(s) - 1), set) ELSE 0

\* String.prototype.trim
Trim(s) ==
    LET a == LeadingIn(s, WhiteSpace)
    IN  IF a = Len(s) THEN <<>>
        ELSE SubSeq(s, a + 1, Len(s) - TrailingIn(s, WhiteSpace))

\* s.substring(n): s without its first n characters
Substring(s, n) == IF n >= Len(s) THEN <<>> ELSE SubSeq(s, n + 1, Len(s))

\* index of the leftmost occurrence of pat in s starting at or after from, 0 if none
RECURSIVE IndexOf(_, _, _)
IndexOf(s, pat, from) ==
    IF from + Len(pat) - 1 > Len(s) THEN 0
    ELSE IF SubSeq(s, from, from + Len(pat) - 1) = pat THEN from
    ELSE IndexOf(s, pat, from + 1)

\* a line as split(/\r?\n/) yields it: the text before the LF, without the CR that
\* directly precedes the LF
BeforeSeparator(seg) ==
    IF seg # <<>> /\ seg[Len(seg)] = 13 THEN SubSeq(seg, 1, Len(seg) - 1) ELSE seg

\* s.split(/\r?\n/): cut at every LF, dropping a CR that directly precedes it
RECURSIVE SplitLines(_)
SplitLines(s) ==
    LET i == IndexOf(s, <<10>>, 1)
    IN  IF i = 0 THEN <<s>>
        ELSE <<BeforeSeparator(SubSeq(s, 1, i - 1))>> \o SplitLines(Substring(s, i))

---------------------------------------------------------------------------
(* StreamingM3UParser *)

\* the literals of the format, as code points
ExtM3U == <<35, 69, 88, 84, 77, 51, 85>>                  \* "#EXTM3U"
ExtInf == <<35, 69, 88, 84, 73, 78, 70, 58>>              \* "#EXTINF:"
Http == <<104, 116, 116, 112>>                            \* "http"
Unknown == <<85, 110, 107, 110, 111, 119, 110>>           \* "Unknown"
Other == <<79, 116, 104, 101, 114>>                       \* "Other"
TvgNameKey == <<116, 118, 103, 45, 110, 97, 109, 101, 61, 34>>           \* tvg-name="
TvgLogoKey == <<116, 118, 103, 45, 108, 111, 103, 111, 61, 34>>          \* tvg-logo="
TvgIdKey == <<116, 118, 103, 45, 105, 100, 61, 34>>                      \* tvg-id="
TvgCountryKey == <<116, 118, 103, 45, 99, 111, 117, 110, 116, 114, 121, 61, 34>>  \* tvg-country="
TvgLanguageKey == <<116, 118, 103, 45, 108, 97, 110, 103, 117, 97, 103, 101, 61, 34>> \* tvg-language="
GroupTitleKey == <<103, 114, 111, 117, 112, 45, 116, 105, 116, 108, 101, 61, 34>> \* group-title="

\* currentInfo = {} : every field undefined
EmptyInfo ==
    [tvgName |-> Undefined, tvgLogo |-> Undefined, tvgId |-> Undefined,
     tvgCountry |-> Undefined, tvgLanguage |-> Undefined, groupTitle |-> Undefined]

\* `channel-${n}`
ChannelIdOf(n) == <<"channel-", n>>

\* infoLine.replace(/^(-?\d+)\s*,?\s*/, ''): drop a leading duration, the white space
\* after it, one comma and the white space after that
StripDuration(infoLine) ==
    LET sign == IF infoLine # <<>> /\ Head(infoLine) = 45 THEN 1 ELSE 0
        digits == LeadingIn(Substring(infoLine, sign), Digit)
        a == sign + digits
        b == a + LeadingIn(Substring(infoLine, a), WhiteSpace)
        c == b + (IF b < Len(infoLine) /\ infoLine[b + 1] = 44 THEN 1 ELSE 0)
        d == c + LeadingIn(Substring(infoLine, c), WhiteSpace)
    IN  IF digits = 0 THEN infoLine ELSE Substring(infoLine, d)

\* rest.match(/key="([^"]*)"/)?.[1] : the text between the leftmost key=" and the
\* next double quote; undefined when either is missing
MatchAttribute(rest, key) ==
    LET k == IndexOf(rest, key, 1)
        from == k + Len(key)
        q == IF k = 0 THEN 0 ELSE IndexOf(rest, <<34>>, from)
    IN  IF q = 0 THEN Undefined ELSE SubSeq(rest, from, q - 1)

\* the capture of /,\s*(.+)$/ tried at the comma at index i of rest: \s* is greedy and
\* gives characters back only when nothing is left for (.+); (.+) runs to the end of
\* the string and matches no line terminator. Undefined when the match fails here.
DisplayNameAt(rest, i) ==
    LET r == Substring(rest, i)
        w == LeadingIn(r, WhiteSpace)
        group == IF w < Len(r) THEN Substring(r, w)
                 ELSE IF w >= 1 THEN <<r[w]>> ELSE <<>>
    IN  IF group # <<>> /\ \A j \in 1..Len(group) : group[j] \notin LineTerminator
        THEN group ELSE Undefined

\* rest.match(/,\s*(.+)$/)?.[1] : the leftmost comma at which the match succeeds
RECURSIVE DisplayNameFrom(_, _)
DisplayNameFrom(rest, from) ==
    LET i == IndexOf(rest, <<44>>, from)
    IN  IF i = 0 THEN Undefined
        ELSE IF DisplayNameAt(rest, i) # Undefined THEN DisplayNameAt(rest, i)
        ELSE DisplayNameFrom(rest, i + 1)

DisplayNameMatch(rest) == DisplayNameFrom(rest, 1)

\* the first operand whatever it is
KeepFirst(a, b) == a

\* a || b || c on optional strings
OrElse(a, b) == IF Truthy(a) THEN a ELSE b

\* parseExtInfo(line): the new value of currentInfo
parseExtInfo(line) ==
    LET infoLine == Substring(line, 8)
        rest == StripDuration(infoLine)
        tvgNameMatch == MatchAttribute(rest, TvgNameKey)
        displayNameMatch == DisplayNameMatch(rest)
        displayName == IF displayNameMatch # Undefined
                       THEN Trim(displayNameMatch) ELSE Unknown
    IN  [tvgName |-> OrElse(displayName, OrElse(tvgNameMatch, Unknown)),
         tvgLogo |-> MatchAttribute(rest, TvgLogoKey),
         tvgId |-> MatchAttribute(rest, TvgIdKey),
         tvgCountry |-> MatchAttribute(rest, TvgCountryKey),
         tvgLanguage |-> MatchAttribute(rest, TvgLanguageKey),
         groupTitle |-> OrElse(MatchAttribute(rest, GroupTitleKey), Other)]

\* { ...this.currentInfo, url: trimmed, id: `channel-${this.channelId++}` }
MakeChannel(info, url, n) ==
    [id |-> ChannelIdOf(n), tvgName |-> info.tvgName, tvgLogo |-> info.tvgLogo,
     tvgId |-> info.tvgId, tvgCountry |-> info.tvgCountry,
     tvgLanguage |-> info.tvgLanguage, groupTitle |-> info.groupTitle, url |-> url]

\* a freshly constructed parser
NewParser == [channels |-> <<>>, currentInfo |-> EmptyInfo, buffer |-> <<>>, channelId |-> 0]

\* a counter that leaves a gap, and one that repeats an id
NextChannelIdGap(n) == n + 2
NextChannelIdSame(n) == n

\* this.channelId++ : the counter after an id was taken
NextChannelId(n) == n + 1

\* a URL line that leaves the accumulator in place
InfoKeptAfterUrl(info) == info

\* this.currentInfo = {} after a URL line
InfoAfterUrl(info) == EmptyInfo

\* a loop that drops the pending attributes at a line it does not recognize
ProcessLineResetting(st, line) ==
    LET trimmed == Trim(line)
    IN  IF trimmed = <<>> \/ StartsWith(trimmed, ExtM3U) THEN st
        ELSE IF StartsWith(trimmed, ExtInf)
             THEN [st EXCEPT !.currentInfo = parseExtInfo(trimmed)]
        ELSE IF StartsWith(trimmed, Http)
             THEN IF Truthy(st.currentInfo.tvgName)
                  THEN LET channel == MakeChannel(st.currentInfo, trimmed, st.channelId)
                       IN  [st EXCEPT !.channels = Append(@, channel),
                                      !.newChannels = Append(@, channel),
                                      !.channelId = NextChannelId(@),
                                      !.currentInfo = InfoAfterUrl(@)]
                  ELSE [st EXCEPT !.currentInfo = InfoAfterUrl(@)]
        ELSE [st EXCEPT !.currentInfo = EmptyInfo]

\* one iteration of the `for (const line of lines)` loop of parse; st carries the
\* parser fields and newChannels
ProcessLine(st, line) ==
    LET trimmed == Trim(line)
    IN  IF trimmed = <<>> \/ StartsWith(trimmed, ExtM3U) THEN st
        ELSE IF StartsWith(trimmed, ExtInf)
             THEN [st EXCEPT !.currentInfo = parseExtInfo(trimmed)]
        ELSE IF StartsWith(trimmed, Http)
             THEN IF Truthy(st.currentInfo.tvgName)
                  THEN LET channel == MakeChannel(st.currentInfo, trimmed, st.channelId)
                       IN  [st EXCEPT !.channels = Append(@, channel),
                                      !.newChannels = Append(@, channel),
                                      !.channelId = NextChannelId(@),
                                      !.currentInfo = InfoAfterUrl(@)]
                  ELSE [st EXCEPT !.currentInfo = InfoAfterUrl(@)]
        ELSE st

RECURSIVE ProcessLines(_, _, _)
ProcessLines(st, lines, i) ==
    IF i > Len(lines) THEN st
    ELSE ProcessLines(ProcessLine(st, lines[i]), lines, i + 1)

\* a loop that also runs over the line still waiting for its newline
EveryLine(lines) == lines

\* const lines = this.buffer.split(...); the lines the loop runs over once the last
\* element was popped
CompleteLines(lines) == SubSeq(lines, 1, Len(lines) - 1)

\* a parser that forgets the incomplete line between two calls
IncompleteLineDropped(lines) == <<>>

\* this.buffer = lines.pop() || ''
IncompleteLine(lines) == lines[Len(lines)]

\* the parser fields and the return value once the loop of parse has run to st and the
\* incomplete line was kept
ParseResult(st, kept) ==
    [parser |-> [channels |-> st.channels, currentInfo |-> st.currentInfo,
                 buffer |-> kept, channelId |-> st.channelId],
     returned |-> st.newChannels]

\* the body of parse once the buffer was split into lines
ParseLines(p, lines) ==
    ParseResult(ProcessLines([channels |-> p.channels, currentInfo |-> p.currentInfo,
                              channelId |-> p.channelId, newChannels |-> <<>>],
                             CompleteLines(lines), 1),
                IncompleteLine(lines))

\* parse(chunk) on parser p: the parser afterwards and the returned newChannels
parse(p, chunk) == ParseLines(p, SplitLines(p.buffer \o chunk))

\* a finalize that hands back only the entry it completed last
FinalizeReturnLast(all) == IF all = <<>> THEN <<>> ELSE <<all[Len(all)]>>

\* return this.channels : what finalize hands back to its caller
FinalizeReturn(all) == all

\* finalize() on parser p: the parser afterwards and the returned list
finalize(p) ==
    LET trimmed == Trim(p.buffer)
        q == IF trimmed # <<>> /\ StartsWith(trimmed, Http) /\ Truthy(p.currentInfo.tvgName)
             THEN [p EXCEPT !.channels = Append(@, MakeChannel(p.currentInfo, trimmed, p.channelId)),
                            !.channelId = NextChannelId(@)]
             ELSE p
    IN  [parser |-> q, returned |-> FinalizeReturn(q.channels)]

\* the parser object of the current run
This == [channels |-> channels, currentInfo |-> currentInfo, buffer |-> buffer,
         channelId |-> channelId]

\* the ids of a list of channels, in order
IdsOf(list) == [i \in 1..Len(list) |-> list[i].id]


---------------------------------------------------------------------------
(* Playlist texts of the streaming specification *)

\* the lines a short text is made of, each up to its LF; some end in CR LF
LineLib ==
    { ExtInf \o <<44, 65, 13>>,                      \* #EXTINF:,A followed by CR
      ExtInf \o TvgIdKey \o <<49, 34, 44, 66>>,      \* #EXTINF:tvg-id="1",B
      <<32>> \o Http \o <<66, 13>>,                  \* " httpB" followed by CR
      ExtM3U,                                        \* #EXTM3U
      <<>>,                                          \* blank line
      <<35, 88>> }                                   \* #X, an unrecognized directive

\* the lines a long text is made of
LongLineLib ==
    { ExtInf,                                        \* #EXTINF:
      Http \o <<65>>,                                \* httpA
      Http \o <<66>> }                               \* httpB

\* f[1] LF f[2] LF ... f[n] LF
RECURSIVE JoinLines(_, _)
JoinLines(f, n) ==
    IF n = 0 THEN <<>> ELSE JoinLines(f, n - 1) \o f[n] \o <<10>>

Texts ==
    { JoinLines(f, MaxLines) : f \in [1..MaxLines -> LineLib] }
    \cup { JoinLines(f, MaxLongLines) : f \in [1..MaxLongLines -> LongLineLib] }

\* the text fed to the parser so far in this run
fed == SubSeq(input, 1, pos)

---------------------------------------------------------------------------
(* The streaming specification: one caller feeding chunks to a parser *)

Init ==
    /\ input \in Texts
    /\ pos = 0
    /\ channels = NewParser.channels
    /\ currentInfo = NewParser.currentInfo
    /\ buffer = NewParser.buffer
    /\ channelId = NewParser.channelId
    /\ pc = "feeding"
    /\ lastReturn = <<>>
    /\ parseReturns = <<>>
    /\ run = 1
    /\ issued = <<>>
    /\ crlfCut = FALSE
    /\ shape = "text"
    /\ file = <<>>
    /\ offset = 0
    /\ response = "none"
    /\ RelayIdle
    /\ PageIdle

\* the chunk boundary at position p of the input falls between a CR and its LF (and
\* so inside a line, before its terminator is complete)
CutsCrLf(p) == p >= 1 /\ p < Len(input) /\ input[p] = 13 /\ input[p + 1] = 10

\* parser.parse(chunk) with the next k characters of the input
Parse(k) ==
    /\ pc = "feeding"
    /\ k >= 1 /\ pos + k <= Len(input)
    /\ \E r \in {parse(This, SubSeq(input, pos + 1, pos + k))} :
           /\ channels' = r.parser.channels
           /\ currentInfo' = r.parser.currentInfo
           /\ buffer' = r.parser.buffer
           /\ channelId' = r.parser.channelId
           /\ lastReturn' = r.returned
           /\ parseReturns' = parseReturns \o r.returned
    /\ pos' = pos + k
    /\ crlfCut' = (crlfCut \/ CutsCrLf(pos))
    /\ UNCHANGED relayVars
    /\ UNCHANGED pageVars
    /\ UNCHANGED <<input, pc, run, issued, shape, file, offset, response>>

\* parser.finalize()
Finalize ==
    /\ pc = "feeding"
    /\ \E r \in {finalize(This)} :
           /\ channels' = r.parser.channels
           /\ currentInfo' = r.parser.currentInfo
           /\ buffer' = r.parser.buffer
           /\ channelId' = r.parser.channelId
           /\ lastReturn' = r.returned
    /\ pc' = "done"
    /\ UNCHANGED relayVars
    /\ UNCHANGED pageVars
    /\ UNCHANGED <<input, pos, parseReturns, run, issued, crlfCut, shape, file, offset, response>>

Next ==
    \/ \E k \in 1..Len(input) : Parse(k)
    \/ Finalize

Spec == Init /\ [][Next]_vars


---------------------------------------------------------------------------
(* POST /api/m3u/parse *)

\* const MAX_FILE_SIZE = 50 * 1024 * 1024
MAX_FILE_SIZE == 52428800

\* CHUNK_SIZE, the number of bytes decoded and fed per loop iteration: 64 * 1024 in
\* the source, scaled down here so that a file of a few lines spans several chunks
ChunkSize == 5

\* number of lines of an uploaded file
MaxFileLines == 4

\* a & mask for a mask of the form 2^k - 1, and a << 6
LowBits(a, k) == a % (2 ^ k)
Shl6(a) == a * 64

\* the state of a new UTF-8 decoder
NewDecoder == [cp |-> 0, seen |-> 0, needed |-> 0, lower |-> 128, upper |-> 191]

\* U+FFFD, what a non-fatal decoder emits for a malformed sequence
Replacement == 65533

\* the UTF-16 code units of a code point, as a JavaScript string holds it
CodeUnits(cp) ==
    IF cp < 65536 THEN <<cp>>
    ELSE <<55296 + ((cp - 65536) \div 1024), 56320 + ((cp - 65536) % 1024)>>

\* the UTF-8 decoder's handler on byte b in decoder state d: the state afterwards,
\* the code units emitted, and whether the byte was consumed (a byte that breaks off
\* an unfinished character is read again)
Utf8Handler(d, b) ==
    IF d.needed = 0
    THEN CASE b <= 127 -> [decoder |-> d, emit |-> <<b>>, consumed |-> 1]
           [] b >= 194 /\ b <= 223 ->
                [decoder |-> [d EXCEPT !.needed = 1, !.cp = LowBits(b, 5)],
                 emit |-> <<>>, consumed |-> 1]
           [] b >= 224 /\ b <= 239 ->
                [decoder |-> [d EXCEPT !.needed = 2, !.cp = LowBits(b, 4),
                                       !.lower = IF b = 224 THEN 160 ELSE 128,
                                       !.upper = IF b = 237 THEN 159 ELSE 191],
                 emit |-> <<>>, consumed |-> 1]
           [] b >= 240 /\ b <= 244 ->
                [decoder |-> [d EXCEPT !.needed = 3, !.cp = LowBits(b, 3),
                                       !.lower = IF b = 240 THEN 144 ELSE 128,
                                       !.upper = IF b = 244 THEN 143 ELSE 191],
                 emit |-> <<>>, consumed |-> 1]
           [] OTHER -> [decoder |-> d, emit |-> <<Replacement>>, consumed |-> 1]
    ELSE CASE b < d.lower \/ b > d.upper ->
                [decoder |-> NewDecoder, emit |-> <<Replacement>>, consumed |-> 0]
           [] d.seen + 1 = d.needed ->
                [decoder |-> NewDecoder,
                 emit |-> CodeUnits(Shl6(d.cp) + LowBits(b, 6)), consumed |-> 1]
           [] OTHER ->
                [decoder |-> [d EXCEPT !.cp = Shl6(d.cp) + LowBits(b, 6),
                                       !.seen = d.seen + 1,
                                       !.lower = 128, !.upper = 191],
                 emit |-> <<>>, consumed |-> 1]

\* the handler run over bytes[i..]: the decoder state at the end and the text emitted
RECURSIVE Utf8Run(_, _, _)
Utf8Run(bytes, i, d) ==
    IF i > Len(bytes) THEN [decoder |-> d, text |-> <<>>]
    ELSE LET h == CHOOSE r \in {Utf8Handler(d, bytes[i])} : TRUE
             rest == Utf8Run(bytes, i + h.consumed, h.decoder)
         IN  [decoder |-> rest.decoder, text |-> h.emit \o rest.text]

\* a new decoder drops a byte order mark at the start of what it decodes
DropBOM(text) == IF text # <<>> /\ Head(text) = 65279 THEN Tail(text) ELSE text

\* a decode that keeps the bytes of an unfinished character for the next call of the
\* same decoder: nothing is emitted for them
StreamDecodeKeeping(bytes) == DropBOM(Utf8Run(bytes, 1, NewDecoder).text)

\* new TextDecoder('utf-8', { fatal: false }).decode(chunk, { stream: true }) : a new
\* decoder per chunk; the bytes of an unfinished character at the end of the chunk stay
\* in that decoder, which is dropped
DecodeChunk(bytes) == StreamDecodeKeeping(bytes)

\* new TextDecoder('utf-8').decode(bytes) of a whole file: an unfinished character at
\* the end becomes U+FFFD
DecodeWhole(bytes) ==
    LET r == Utf8Run(bytes, 1, NewDecoder)
    IN  DropBOM(IF r.decoder.needed # 0 THEN Append(r.text, Replacement) ELSE r.text)

\* Math.min(a, b)
Min(a, b) == IF a < b THEN a ELSE b

\* a summary that lists the groups last-met first
RECURSIVE GroupSummaryNewestFirst(_, _)
GroupSummaryNewestFirst(list, n) ==
    IF n = 0 THEN <<>>
    ELSE LET before == GroupSummaryNewestFirst(list, n - 1)
             at == {i \in 1..Len(before) : before[i].name = list[n].groupTitle}
         IN  IF at = {} THEN <<[name |-> list[n].groupTitle, count |-> 1]>> \o before
             ELSE [i \in 1..Len(before) |->
                      IF i \in at THEN [before[i] EXCEPT !.count = @ + 1] ELSE before[i]]

\* the group summary: one record per group name in first-encountered order, as the
\* insertion-ordered Map of the source yields it
RECURSIVE GroupSummary(_, _)
GroupSummary(list, n) ==
    IF n = 0 THEN <<>>
    ELSE LET before == GroupSummary(list, n - 1)
             groupName == OrElse(list[n].groupTitle, Other)
             at == {i \in 1..Len(before) : before[i].name = groupName}
         IN  IF at = {} THEN Append(before, [name |-> groupName, count |-> 1])
             ELSE [i \in 1..Len(before) |->
                      IF i \in at THEN [before[i] EXCEPT !.count = @ + 1] ELSE before[i]]

\* String.prototype.toLowerCase on the letters A-Z
ToLowerCase(s) == [i \in 1..Len(s) |-> IF s[i] >= 65 /\ s[i] <= 90 THEN s[i] + 32 ELSE s[i]]

\* String.prototype.endsWith
EndsWith(s, suffix) ==
    Len(s) >= Len(suffix) /\ SubSeq(s, Len(s) - Len(suffix) + 1, Len(s)) = suffix

DotM3u == <<46, 109, 51, 117>>            \* ".m3u"
DotM3u8 == <<46, 109, 51, 117, 56>>       \* ".m3u8"

\* file.size > MAX_FILE_SIZE, read as "one byte short of the limit is the most"
TooLargeAtLimit(size) == size >= MAX_FILE_SIZE

\* if (file.size > MAX_FILE_SIZE)
TooLarge(size) == size > MAX_FILE_SIZE

\* the checks of POST before a parser is made: the error response, or status 0 when
\* the upload passes
ValidationError(upload) ==
    IF ~upload.present
    THEN [status |-> 400, error |-> "Dosya gerekli"]
    ELSE IF ~EndsWith(ToLowerCase(upload.name), DotM3u)
            /\ ~EndsWith(ToLowerCase(upload.name), DotM3u8)
    THEN [status |-> 400, error |-> "Gecersiz dosya formati"]
    ELSE IF TooLarge(upload.size)
    THEN [status |-> 400, error |-> "Dosya boyutu cok buyuk"]
    ELSE [status |-> 0, error |-> ""]

\* const result = { channels, totalChannels: channels.length, groups }
ParseResponse(list) ==
    [status |-> 200, channels |-> list, totalChannels |-> Len(list),
     groups |-> GroupSummary(list, Len(list))]

\* the lines an uploaded file is made of, as UTF-8 bytes
ByteLineLib ==
    { ExtInf \o <<44, 195, 169>>,               \* #EXTINF:,e-acute (2 bytes)
      ExtInf \o <<44, 226, 130, 172>>,          \* #EXTINF:,euro sign (3 bytes)
      Http \o <<47, 195, 169>>,                 \* http/e-acute
      Http }                                    \* http

FileBytes == { JoinLines(f, MaxFileLines) : f \in [1..MaxFileLines -> ByteLineLib] }

FileName == <<97>> \o DotM3u                    \* a.m3u

\* An upload is a record: present (the form has a file), name, size (file.size) and
\* bytes, the file's leading bytes. A file larger than its bytes field continues
\* with line feeds up to its size.
\* uint8Array.slice(offset, offset + n): the n bytes of the file after offset
SliceAt(upload, from, n) ==
    [i \in 1..n |-> IF from + i <= Len(upload.bytes) THEN upload.bytes[from + i] ELSE 10]

\* the uploads: playable files, and the uploads the endpoint refuses
Uploads ==
    { [present |-> TRUE, name |-> FileName, size |-> Len(b), bytes |-> b] : b \in FileBytes }
    \cup { [present |-> FALSE, name |-> <<>>, size |-> 0, bytes |-> <<>>],
           [present |-> TRUE, name |-> <<97, 46, 77, 51, 85>>, size |-> 5, bytes |-> Http \o <<10>>],
           [present |-> TRUE, name |-> FileName, size |-> MAX_FILE_SIZE,
            bytes |-> ExtInf \o <<44, 65, 10>> \o Http \o <<10>>],
           [present |-> TRUE, name |-> <<97, 46, 116, 120, 116>>, size |-> 0, bytes |-> <<>>],
           [present |-> TRUE, name |-> <<65>> \o ToLowerCase(DotM3u8) , size |-> 0, bytes |-> <<>>],
           [present |-> TRUE, name |-> FileName, size |-> MAX_FILE_SIZE + 1, bytes |-> <<>>] }

InitPost ==
    /\ file \in Uploads
    /\ pc = "request"
    /\ offset = 0
    /\ run = 1
    /\ issued = <<>>
    /\ response = "none"
    /\ RelayIdle
    /\ PageIdle
    /\ channels = NewParser.channels
    /\ currentInfo = NewParser.currentInfo
    /\ buffer = NewParser.buffer
    /\ channelId = NewParser.channelId
    /\ input = <<>>
    /\ pos = 0
    /\ lastReturn = <<>>
    /\ parseReturns = <<>>
    /\ crlfCut = FALSE
    /\ shape = "upload"

\* POST up to the chunk loop: the checks of the upload, then new StreamingM3UParser()
PostValidate ==
    /\ pc = "request"
    /\ IF ValidationError(file).status # 0
       THEN /\ response' = ValidationError(file)
            /\ issued' = Append(issued, <<>>)
            /\ pc' = "responded"
       ELSE /\ pc' = "reading"
            /\ UNCHANGED <<response, issued>>
    /\ channels' = NewParser.channels
    /\ currentInfo' = NewParser.currentInfo
    /\ buffer' = NewParser.buffer
    /\ channelId' = NewParser.channelId
    /\ offset' = 0
    /\ UNCHANGED relayVars
    /\ UNCHANGED pageVars
    /\ UNCHANGED <<input, pos, lastReturn, parseReturns, run, crlfCut, shape, file>>

\* one iteration of the chunk loop: slice, decode, parse, advance. Once the loop
\* is past the file's leading bytes every further chunk is line feeds only, and the
\* first of them leaves the parser with an empty buffer that the others cannot
\* change: these iterations are taken together.
PostChunk ==
    /\ pc = "reading"
    /\ offset < file.size
    /\ LET chunkSize == Min(ChunkSize, file.size - offset)
           chunk == SliceAt(file, offset, chunkSize)
       IN  /\ \E r \in {parse(This, DecodeChunk(chunk))} :
                 /\ channels' = r.parser.channels
                 /\ currentInfo' = r.parser.currentInfo
                 /\ buffer' = r.parser.buffer
                 /\ channelId' = r.parser.channelId
           /\ offset' = IF offset >= Len(file.bytes) THEN file.size ELSE offset + chunkSize
    /\ UNCHANGED relayVars
    /\ UNCHANGED pageVars
    /\ UNCHANGED <<input, pos, pc, lastReturn, parseReturns, run, issued, crlfCut, shape,
                   file, response>>

\* POST after the loop: finalize, the group summary and the JSON response
PostRespond ==
    /\ pc = "reading"
    /\ offset >= file.size
    /\ \E r \in {finalize(This)} :
          /\ channels' = r.parser.channels
          /\ currentInfo' = r.parser.currentInfo
          /\ buffer' = r.parser.buffer
          /\ channelId' = r.parser.channelId
          /\ response' = ParseResponse(r.returned)
          /\ issued' = Append(issued, IdsOf(r.returned))
    /\ pc' = "responded"
    /\ UNCHANGED relayVars
    /\ UNCHANGED pageVars
    /\ UNCHANGED <<input, pos, offset, lastReturn, parseReturns, run, crlfCut, shape, file>>

\* the client uploads the same file again: the next request
NextRequest ==
    /\ pc = "responded"
    /\ run < MaxRuns
    /\ run' = run + 1
    /\ pc' = "request"
    /\ UNCHANGED relayVars
    /\ UNCHANGED pageVars
    /\ UNCHANGED <<channels, currentInfo, buffer, channelId, input, pos, offset,
                   lastReturn, parseReturns, issued, crlfCut, shape, file, response>>

NextPost == PostValidate \/ PostChunk \/ PostRespond \/ NextRequest

SpecPost == InitPost /\ [][NextPost]_vars

---------------------------------------------------------------------------
(* Info lines of every shape, parsed with their URL line *)

Name_A == <<65>>                                  \* "A"
Name_N == <<78>>                                  \* "N"
Group_G == <<71>>                                 \* "G"
UrlA == Http \o <<58, 47, 47, 97>>                \* http://a
UrlB == Http \o <<58, 47, 47, 98>>                \* http://b

\* the parts an info line is written from: the duration, the name and group
\* attributes (Undefined when left out) and the text of the trailing ", <text>" suffix
\* (Undefined when the line has no suffix)
InfoShapes ==
    [duration : {<<>>, <<45, 49>>, <<48>>},                         \* none, -1, 0
     name : {Undefined, Name_N, <<78, 44, 77>>},                    \* none, N, "N,M"
     group : {Undefined, Group_G},
     suffix : {Undefined, Name_A, <<32, 65>>, <<65, 32, 98>>}]      \* none, A, " A", "A b"

\* key="value" preceded by a space, or nothing for an attribute left out
AttributeText(key, value) ==
    IF value = Undefined THEN <<>> ELSE <<32>> \o key \o value \o <<34>>

\* the info line written from its parts
InfoLineOf(sh) ==
    ExtInf \o sh.duration \o AttributeText(TvgNameKey, sh.name)
           \o AttributeText(GroupTitleKey, sh.group)
           \o (IF sh.suffix = Undefined THEN <<>> ELSE <<44>> \o sh.suffix)

InitInfo ==
    /\ shape \in InfoShapes
    /\ input = InfoLineOf(shape) \o <<10>> \o UrlA \o <<10>>
    /\ pos = 0
    /\ channels = NewParser.channels
    /\ currentInfo = NewParser.currentInfo
    /\ buffer = NewParser.buffer
    /\ channelId = NewParser.channelId
    /\ pc = "feeding"
    /\ lastReturn = <<>>
    /\ parseReturns = <<>>
    /\ run = 1
    /\ issued = <<>>
    /\ crlfCut = FALSE
    /\ file = <<>>
    /\ offset = 0
    /\ response = "none"
    /\ RelayIdle
    /\ PageIdle

\* parser.parse(text) with the whole text, as a caller with a small file does
ParseWhole == pos = 0 /\ Parse(Len(input))

\* parser.finalize() once the text was fed
FinalizeFed == pos = Len(input) /\ Finalize

NextInfo == ParseWhole \/ FinalizeFed

SpecInfo == InitInfo /\ [][NextInfo]_vars

---------------------------------------------------------------------------
(* Uploads whose entries carry every kind of group attribute *)

\* number of entries of an uploaded file
MaxGroupEntries == 3

Group_H == <<72>>                                 \* "H"

\* the group-title attribute of an info line: left out, empty, G, H, or the literal Other
GroupChoices == {Undefined, <<>>, Group_G, Group_H, Other}

GroupLists == UNION { [1..n -> GroupChoices] : n \in 1..MaxGroupEntries }

\* the file made of one info line and one URL line per group attribute of gs
RECURSIVE GroupFileBytes(_)
GroupFileBytes(gs) ==
    IF gs = <<>> THEN <<>>
    ELSE GroupFileBytes(SubSeq(gs, 1, Len(gs) - 1))
         \o InfoLineOf([duration |-> <<>>, name |-> Undefined,
                        group |-> gs[Len(gs)], suffix |-> Name_A])
         \o <<10>> \o Http \o <<10>>

InitGroups ==
    /\ shape \in GroupLists
    /\ file = [present |-> TRUE, name |-> FileName,
               size |-> Len(GroupFileBytes(shape)), bytes |-> GroupFileBytes(shape)]
    /\ pc = "request"
    /\ offset = 0
    /\ run = 1
    /\ issued = <<>>
    /\ response = "none"
    /\ RelayIdle
    /\ PageIdle
    /\ channels = NewParser.channels
    /\ currentInfo = NewParser.currentInfo
    /\ buffer = NewParser.buffer
    /\ channelId = NewParser.channelId
    /\ input = <<>>
    /\ pos = 0
    /\ lastReturn = <<>>
    /\ parseReturns = <<>>
    /\ crlfCut = FALSE

SpecGroups == InitGroups /\ [][NextPost]_vars

---------------------------------------------------------------------------
(* generateM3UContent, and the round trip through the parser *)

\* number of entries of a download request
MaxEntries == 2

\* value.replace(/"/g, "'").replace(/[\r\n]/g, "")
RECURSIVE escapeAttribute(_)
escapeAttribute(value) ==
    IF ~Truthy(value) THEN <<>>
    ELSE LET c == Head(value)
             rest == IF Len(value) = 1 THEN <<>> ELSE escapeAttribute(Tail(value))
         IN  IF c = 34 THEN <<39>> \o rest
             ELSE IF c \in {10, 13} THEN rest
             ELSE <<c>> \o rest

\* value without its CR and LF characters
RECURSIVE StripLineBreaks(_)
StripLineBreaks(value) ==
    IF value = <<>> THEN <<>>
    ELSE IF Head(value) \in {10, 13} THEN StripLineBreaks(Tail(value))
    ELSE <<Head(value)>> \o StripLineBreaks(Tail(value))

\* escapeValue(value): "Unknown" for an empty value, else the value without line
\* breaks, trimmed
escapeValue(value) ==
    IF ~Truthy(value) THEN Unknown ELSE Trim(StripLineBreaks(value))

\* info.join(" ") over the attributes that are present
RECURSIVE JoinWithSpace(_)
JoinWithSpace(parts) ==
    IF parts = <<>> THEN <<>>
    ELSE IF Len(parts) = 1 THEN parts[1]
    ELSE parts[1] \o <<32>> \o JoinWithSpace(Tail(parts))

\* key="escaped value" when the field is truthy, as one element of info
InfoPart(key, value) ==
    IF Truthy(value) THEN <<key \o escapeAttribute(value) \o <<34>>>> ELSE <<>>

\* the two lines generateM3UContent adds for one channel
ChannelText(channel) ==
    LET info == InfoPart(TvgNameKey, channel.tvgName)
                \o InfoPart(TvgLogoKey, channel.tvgLogo)
                \o InfoPart(TvgIdKey, channel.tvgId)
                \o InfoPart(TvgCountryKey, channel.tvgCountry)
                \o InfoPart(TvgLanguageKey, channel.tvgLanguage)
                \o InfoPart(GroupTitleKey, channel.groupTitle)
    IN  ExtInf \o <<45, 49, 32>> \o JoinWithSpace(info) \o <<44>>
        \o escapeValue(channel.tvgName) \o <<10>>
        \o channel.url \o <<10>>

\* generateM3UContent(channels)
RECURSIVE generateM3UContent(_)
generateM3UContent(list) ==
    IF list = <<>> THEN ExtM3U \o <<10>>
    ELSE generateM3UContent(SubSeq(list, 1, Len(list) - 1)) \o ChannelText(list[Len(list)])

\* the entries of a download request: display names with and without a comma
RequestEntries ==
    [id : {ChannelIdOf(0)},
     tvgName : {Name_A, Name_N, <<65, 44, 66>>},                   \* A, N, "A,B"
     tvgNameAttribute : {Undefined},
     tvgLogo : {Undefined, <<76>>},                                \* none, L
     tvgId : {Undefined},
     tvgCountry : {Undefined},
     tvgLanguage : {Undefined},
     groupTitle : {Group_G, Other},
     url : {UrlA, UrlB}]

RequestLists == UNION { [1..n -> RequestEntries] : n \in 1..MaxEntries }

InitRound ==
    /\ shape \in RequestLists
    /\ input = <<>>
    /\ pos = 0
    /\ channels = NewParser.channels
    /\ currentInfo = NewParser.currentInfo
    /\ buffer = NewParser.buffer
    /\ channelId = NewParser.channelId
    /\ pc = "entries"
    /\ lastReturn = <<>>
    /\ parseReturns = <<>>
    /\ run = 1
    /\ issued = <<>>
    /\ crlfCut = FALSE
    /\ file = <<>>
    /\ offset = 0
    /\ response = "none"
    /\ RelayIdle
    /\ PageIdle

\* the playlist text is generated from the entries and uploaded to the parser
Generate ==
    /\ pc = "entries"
    /\ input' = generateM3UContent(shape)
    /\ pc' = "feeding"
    /\ UNCHANGED relayVars
    /\ UNCHANGED pageVars
    /\ UNCHANGED <<channels, currentInfo, buffer, channelId, pos, lastReturn, parseReturns,
                   run, issued, crlfCut, shape, file, offset, response>>

NextRound == Generate \/ ParseWhole \/ FinalizeFed

SpecRound == InitRound /\ [][NextRound]_vars

---------------------------------------------------------------------------
(* generateM3UContent on entries with every attribute and with line breaks *)

NameWithLF == <<65, 10, 66>>                      \* "A\nB"
GroupWithQuote == <<71, 34, 72>>                  \* G"H
UrlWithLF == UrlA \o <<10, 98>>                   \* "http://a\nb"

\* entries with each optional attribute present or absent
FullEntries ==
    [id : {ChannelIdOf(0)},
     tvgName : {Name_A, NameWithLF},
     tvgNameAttribute : {Undefined, Name_N},
     tvgLogo : {Undefined, <<76>>},                                \* L
     tvgId : {Undefined, <<73>>},                                  \* I
     tvgCountry : {Undefined, <<67>>},                             \* C
     tvgLanguage : {Undefined, <<84>>},                            \* T
     groupTitle : {Undefined, Group_G, GroupWithQuote},
     url : {UrlA, UrlWithLF}]

\* entries of the longer lists: a name, a group and a url
PlainEntries ==
    { e \in FullEntries :
         /\ e.tvgLogo = Undefined /\ e.tvgId = Undefined /\ e.tvgCountry = Undefined
         /\ e.tvgLanguage = Undefined /\ e.tvgNameAttribute = Undefined
         /\ e.groupTitle # Undefined }

GenLists ==
    [1..1 -> FullEntries] \cup UNION { [1..n -> PlainEntries] : n \in 2..MaxEntries }

InitGen ==
    /\ shape \in GenLists
    /\ input = <<>>
    /\ pos = 0
    /\ channels = NewParser.channels
    /\ currentInfo = NewParser.currentInfo
    /\ buffer = NewParser.buffer
    /\ channelId = NewParser.channelId
    /\ pc = "entries"
    /\ lastReturn = <<>>
    /\ parseReturns = <<>>
    /\ run = 1
    /\ issued = <<>>
    /\ crlfCut = FALSE
    /\ file = <<>>
    /\ offset = 0
    /\ response = "none"
    /\ RelayIdle
    /\ PageIdle

NextGen == Generate

SpecGen == InitGen /\ [][NextGen]_vars

---------------------------------------------------------------------------
(* new URL(urlParam): the URL parser of the platform, on the URLs the relay is given *)

\* index of the first character of s at or after from that belongs to set, 0 if none
FirstIn(s, set, from) ==
    LET hits == {i \in from..Len(s) : s[i] \in set}
    IN  IF hits = {} THEN 0 ELSE CHOOSE i \in hits : \A j \in hits : i <= j

\* index of the last character of s that belongs to set, 0 if none
LastIn(s, set) ==
    LET hits == {i \in 1..Len(s) : s[i] \in set}
    IN  IF hits = {} THEN 0 ELSE CHOOSE i \in hits : \A j \in hits : i >= j

\* s.split(c) for a one-character separator
RECURSIVE SplitOn(_, _)
SplitOn(s, c) ==
    LET i == FirstIn(s, {c}, 1)
    IN  IF i = 0 THEN <<s>> ELSE <<SubSeq(s, 1, i - 1)>> \o SplitOn(Substring(s, i), c)

\* the value of a hexadecimal, decimal or octal digit, -1 for any other character
DigitValue(c) ==
    IF c \in 48..57 THEN c - 48
    ELSE IF c \in 97..102 THEN c - 87
    ELSE IF c \in 65..70 THEN c - 55
    ELSE -1

\* the number written by digits in the radix, -1 if a character is not a digit of it
RECURSIVE ValueIn(_, _)
ValueIn(digits, radix) ==
    IF digits = <<>> THEN 0
    ELSE LET d == DigitValue(digits[Len(digits)])
             high == ValueIn(SubSeq(digits, 1, Len(digits) - 1), radix)
         IN  IF d < 0 \/ d >= radix \/ high < 0 THEN -1 ELSE high * radix + d

\* the decimal digits of a natural number
RECURSIVE ToDecimal(_)
ToDecimal(n) == IF n < 10 THEN <<48 + n>> ELSE ToDecimal(n \div 10) \o <<48 + (n % 10)>>

RECURSIVE Power(_, _)
Power(b, e) == IF e = 0 THEN 1 ELSE b * Power(b, e - 1)

\* the IPv4 number parser: 0x.. is hexadecimal, 0.. is octal, anything else decimal
ParseIPv4Number(part) ==
    IF part = <<>> THEN -1
    ELSE IF Len(part) >= 2 /\ part[1] = 48 /\ part[2] \in {120, 88}
         THEN ValueIn(Substring(part, 2), 16)
    ELSE IF Len(part) >= 2 /\ part[1] = 48 THEN ValueIn(Substring(part, 1), 8)
    ELSE ValueIn(part, 10)

\* the labels of a host, without the empty label a trailing dot leaves
HostParts(host) ==
    LET parts == SplitOn(host, 46)
    IN  IF Len(parts) > 1 /\ parts[Len(parts)] = <<>>
        THEN SubSeq(parts, 1, Len(parts) - 1) ELSE parts

\* "ends in a number": the last label is all digits or a 0x number
EndsInNumber(host) ==
    LET parts == HostParts(host)
        last == parts[Len(parts)]
    IN  /\ last # <<>>
        /\ \/ \A i \in 1..Len(last) : last[i] \in Digit
           \/ /\ Len(last) >= 2 /\ last[1] = 48 /\ last[2] \in {120, 88}
              /\ ValueIn(Substring(last, 2), 16) >= 0

\* the IPv4 parser and serializer: the dotted-decimal form of the address, or
\* Undefined when the host is no valid address. The numbers before the last are one
\* octet each and the last number fills the octets that remain.
ParseIPv4(host) ==
    LET parts == HostParts(host)
        n == Len(parts)
        numbers == [i \in 1..n |-> ParseIPv4Number(parts[i])]
        k == 5 - n
        octet(j) == IF j < n THEN numbers[j]
                    ELSE (numbers[n] \div Power(256, 4 - j)) % 256
    IN  IF n > 4 \/ \E i \in 1..n : numbers[i] < 0 THEN Undefined
        ELSE IF \E i \in 1..(n - 1) : numbers[i] > 255 THEN Undefined
        ELSE IF k < 4 /\ numbers[n] >= Power(256, k) THEN Undefined
        ELSE ToDecimal(octet(1)) \o <<46>> \o ToDecimal(octet(2)) \o <<46>>
             \o ToDecimal(octet(3)) \o <<46>> \o ToDecimal(octet(4))

\* the code points a domain may not contain
ForbiddenHostCodePoints ==
    (0..32) \cup {35, 37, 47, 58, 60, 62, 63, 64, 91, 92, 93, 94, 124, 127}

\* the host parser: the serialized host, or Undefined on failure. An IPv6 literal is
\* kept in its brackets; of the IPv6 literals only compressed lower-case forms such
\* as [::1], which serialize to themselves, are given to the model.
ParseHost(text) ==
    IF text = <<>> THEN Undefined
    ELSE IF text[1] = 91
         THEN IF text[Len(text)] = 93 /\ Len(text) > 2 THEN ToLowerCase(text) ELSE Undefined
    ELSE IF \E i \in 1..Len(text) : text[i] \in ForbiddenHostCodePoints THEN Undefined
    ELSE IF EndsInNumber(ToLowerCase(text)) THEN ParseIPv4(ToLowerCase(text))
    ELSE ToLowerCase(text)

\* the special schemes with an authority (file:, which has its own rules, is treated
\* with the schemes that are not special: the relay reads only its protocol)
SpecialSchemes == {<<104, 116, 116, 112>>, <<104, 116, 116, 112, 115>>, <<119, 115>>, <<119, 115, 115>>, <<102, 116, 112>>}

\* the port a scheme leaves out of the serialized URL
DefaultPort(scheme) ==
    IF scheme \in {<<104, 116, 116, 112>>, <<119, 115>>} THEN <<56, 48>>
    ELSE IF scheme \in {<<104, 116, 116, 112, 115>>, <<119, 115, 115>>} THEN <<52, 52, 51>>
    ELSE IF scheme = <<102, 116, 112>> THEN <<50, 49>>
    ELSE Undefined

Alpha == (65..90) \cup (97..122)

\* a URL that failed to parse: new URL throws
InvalidUrl ==
    [ok |-> FALSE, protocol |-> <<>>, hostname |-> <<>>, port |-> <<>>, pathname |-> <<>>,
     href |-> <<>>]

\* the code point at the start of a string, and the number of code units it takes (a
\* surrogate pair is one code point in two units)
CodePointAt(s) ==
    IF Len(s) >= 2 /\ s[1] \in 55296..56319 /\ s[2] \in 56320..57343
    THEN [cp |-> 65536 + (s[1] - 55296) * 1024 + (s[2] - 56320), units |-> 2]
    ELSE [cp |-> s[1], units |-> 1]

\* upper-case hexadecimal digit of a value below 16
HexDigit(v) == IF v < 10 THEN 48 + v ELSE 55 + v

\* %XX for a byte
PercentByte(b) == <<37, HexDigit(b \div 16), HexDigit(b % 16)>>

\* the UTF-8 bytes of a code point
Utf8Encode(cp) ==
    IF cp < 128 THEN <<cp>>
    ELSE IF cp < 2048 THEN <<192 + (cp \div 64), 128 + (cp % 64)>>
    ELSE IF cp < 65536
         THEN <<224 + (cp \div 4096), 128 + ((cp \div 64) % 64), 128 + (cp % 64)>>
    ELSE <<240 + (cp \div 262144), 128 + ((cp \div 4096) % 64),
           128 + ((cp \div 64) % 64), 128 + (cp % 64)>>

\* the UTF-8 bytes of a code point, each written %XX
PercentEncode(cp) ==
    LET bytes == Utf8Encode(cp)
    IN  IF Len(bytes) = 1 THEN PercentByte(bytes[1])
        ELSE IF Len(bytes) = 2 THEN PercentByte(bytes[1]) \o PercentByte(bytes[2])
        ELSE IF Len(bytes) = 3
             THEN PercentByte(bytes[1]) \o PercentByte(bytes[2]) \o PercentByte(bytes[3])
        ELSE PercentByte(bytes[1]) \o PercentByte(bytes[2]) \o PercentByte(bytes[3])
             \o PercentByte(bytes[4])

\* the path percent-encode set: controls, space, " # < > ? ` { } and non-ASCII
PathEncodeSet == (0..32) \cup {34, 35, 60, 62, 63, 96, 123, 125}

\* the path of a special URL as the parser stores it: \ becomes /, the characters of
\* the path percent-encode set are escaped, a % is kept as written
RECURSIVE EncodePath(_)
EncodePath(path) ==
    IF path = <<>> THEN <<>>
    ELSE LET first == CodePointAt(path)
             c == first.cp
         IN  (IF c = 92 THEN <<47>>
              ELSE IF c \in PathEncodeSet \/ c > 126 THEN PercentEncode(c)
              ELSE <<c>>) \o EncodePath(Substring(path, first.units))

\* host and port of an authority without its userinfo
HostAndPort(hostport) ==
    LET close == FirstIn(hostport, {93}, 1)
        colon == IF hostport # <<>> /\ hostport[1] = 91
                 THEN (IF close # 0 /\ close < Len(hostport) /\ hostport[close + 1] = 58
                       THEN close + 1 ELSE 0)
                 ELSE LastIn(hostport, {58})
    IN  IF colon = 0 THEN [host |-> hostport, port |-> <<>>]
        ELSE [host |-> SubSeq(hostport, 1, colon - 1), port |-> Substring(hostport, colon)]

\* new URL(text) without a base: its protocol, hostname, port, pathname and href, or
\* InvalidUrl when the constructor throws. For a scheme that is not special only the
\* protocol is computed (the relay reads nothing else of such a URL).
ParseUrl(text) ==
    LET lead == LeadingIn(text, 0..32)
        url == IF lead = Len(text) THEN <<>>
               ELSE SubSeq(text, lead + 1, Len(text) - TrailingIn(text, 0..32))
        colon == FirstIn(url, {58}, 1)
        scheme == IF colon = 0 THEN <<>> ELSE ToLowerCase(SubSeq(url, 1, colon - 1))
    IN  IF colon <= 1 \/ scheme[1] \notin Alpha
           \/ \E i \in 1..Len(scheme) : scheme[i] \notin (Alpha \cup Digit \cup {43, 45, 46})
        THEN InvalidUrl
        ELSE IF scheme \notin SpecialSchemes
        THEN [ok |-> TRUE, protocol |-> scheme \o <<58>>, hostname |-> <<>>, port |-> <<>>,
              pathname |-> Substring(url, colon), href |-> url]
        ELSE LET after == Substring(url, colon)
                 rest == Substring(after, LeadingIn(after, {47, 92}))
                 stop == FirstIn(rest, {47, 92, 63, 35}, 1)
                 authority == IF stop = 0 THEN rest ELSE SubSeq(rest, 1, stop - 1)
                 tail == IF stop = 0 THEN <<>> ELSE Substring(rest, stop - 1)
                 at == LastIn(authority, {64})
                 hp == HostAndPort(Substring(authority, at))
                 host == ParseHost(hp.host)
                 portOk == \A i \in 1..Len(hp.port) : hp.port[i] \in Digit
                 port == IF hp.port = DefaultPort(scheme) THEN <<>> ELSE hp.port
                 pathEnd == FirstIn(tail, {63, 35}, 1)
                 rawPath == IF pathEnd = 0 THEN tail ELSE SubSeq(tail, 1, pathEnd - 1)
                 pathname == IF rawPath = <<>> THEN <<47>> ELSE EncodePath(rawPath)
                 hashAt == FirstIn(tail, {35}, 1)
                 search == IF pathEnd = 0 \/ tail[pathEnd] = 35 THEN <<>>
                           ELSE IF hashAt = 0 THEN Substring(tail, pathEnd - 1)
                           ELSE SubSeq(tail, pathEnd, hashAt - 1)
             IN  IF host = Undefined \/ ~portOk THEN InvalidUrl
                 ELSE [ok |-> TRUE, protocol |-> scheme \o <<58>>, hostname |-> host,
                       port |-> port, pathname |-> pathname,
                       href |-> scheme \o <<58, 47, 47>> \o host
                                \o (IF port = <<>> THEN <<>> ELSE <<58>> \o port)
                                \o pathname \o search]

---------------------------------------------------------------------------
(* isBlockedHostname *)

\* /^\d{1,3}(\.\d{1,3}){3}$/.test(host)
IsDottedQuad(host) ==
    LET parts == SplitOn(host, 46)
    IN  /\ Len(parts) = 4
        /\ \A i \in 1..4 :
              /\ Len(parts[i]) \in 1..3
              /\ \A k \in 1..Len(parts[i]) : parts[i][k] \in Digit

\* host.split(".").map((p) => Number(p)) on a host that passed the test
QuadParts(host) == [i \in 1..4 |-> ValueIn(SplitOn(host, 46)[i], 10)]

\* a guard that lets every address of 172.0.0.0/8 through
BlockedRangeWithout172(parts) ==
    \/ parts[1] = 10
    \/ parts[1] = 127
    \/ parts[1] = 192 /\ parts[2] = 168
    \/ parts[1] = 169 /\ parts[2] = 254
    \/ parts[1] = 0

\* the range tests of isBlockedHostname on the four numbers of a dotted quad
BlockedRange(parts) ==
    \/ \E i \in 1..4 : parts[i] < 0 \/ parts[i] > 255
    \/ parts[1] = 10
    \/ parts[1] = 127
    \/ parts[1] = 192 /\ parts[2] = 168
    \/ parts[1] = 172 /\ parts[2] >= 16 /\ parts[2] <= 31
    \/ parts[1] = 169 /\ parts[2] = 254
    \/ parts[1] = 0

\* isBlockedHostname(hostname)
isBlockedHostname(hostname) ==
    LET host == ToLowerCase(hostname)
    IN  IF host \in {<<108, 111, 99, 97, 108, 104, 111, 115, 116>>, <<49, 50, 55, 46, 48, 46, 48, 46, 49>>, <<58, 58, 49>>} THEN TRUE
        ELSE IF IsDottedQuad(host) THEN BlockedRange(QuadParts(host))
        ELSE FALSE

---------------------------------------------------------------------------
(* File names: decodeURIComponent, sanitizeFilename, createContentDispositionHeader *)

\* the bytes written by the run of well-formed %XX escapes that starts at s[i]
RECURSIVE EscapeRun(_, _)
EscapeRun(s, i) ==
    IF i + 2 <= Len(s) /\ s[i] = 37 /\ DigitValue(s[i + 1]) >= 0 /\ DigitValue(s[i + 2]) >= 0
    THEN <<DigitValue(s[i + 1]) * 16 + DigitValue(s[i + 2])>> \o EscapeRun(s, i + 3)
    ELSE <<>>

\* the UTF-8 bytes of a text
RECURSIVE Utf8EncodeAll(_)
Utf8EncodeAll(text) ==
    IF text = <<>> THEN <<>>
    ELSE LET first == CodePointAt(text)
         IN  Utf8Encode(first.cp) \o Utf8EncodeAll(Substring(text, first.units))

\* decodeURIComponent(s) from s[i] on: the decoded text, or ok = FALSE where the
\* function throws URIError (a % without two hexadecimal digits, or escapes that are
\* not the UTF-8 bytes of characters)
RECURSIVE DecodeURIFrom(_, _)
DecodeURIFrom(s, i) ==
    IF i > Len(s) THEN [ok |-> TRUE, text |-> <<>>]
    ELSE IF s[i] # 37
    THEN LET rest == DecodeURIFrom(s, i + 1)
         IN  [ok |-> rest.ok, text |-> <<s[i]>> \o rest.text]
    ELSE LET bytes == EscapeRun(s, i)
             r == Utf8Run(bytes, 1, NewDecoder)
             rest == DecodeURIFrom(s, i + 3 * Len(bytes))
         IN  IF bytes = <<>> \/ r.decoder.needed # 0 \/ Utf8EncodeAll(r.text) # bytes
             THEN [ok |-> FALSE, text |-> <<>>]
             ELSE [ok |-> rest.ok, text |-> r.text \o rest.text]

decodeURIComponent(s) == DecodeURIFrom(s, 1)

\* the characters encodeURIComponent leaves as they are
UriUnreserved == Alpha \cup Digit \cup {45, 95, 46, 33, 126, 42, 39, 40, 41}

RECURSIVE encodeURIComponent(_)
encodeURIComponent(s) ==
    IF s = <<>> THEN <<>>
    ELSE LET first == CodePointAt(s)
         IN  (IF first.cp \in UriUnreserved THEN <<first.cp>> ELSE PercentEncode(first.cp))
             \o encodeURIComponent(Substring(s, first.units))

\* [\u0000-\u001F<>:"/\\|?*]
FilenameForbidden == (0..31) \cup {60, 62, 58, 34, 47, 92, 124, 63, 42}

\* s.replace(/\s+/g, " ")
\* (the first character of every run of white space becomes a space, the others
\* of the run go)
CollapseWhiteSpace(s) ==
    LET marked == [i \in 1..Len(s) |->
                      IF s[i] \notin WhiteSpace THEN s[i]
                      ELSE IF i = 1 \/ s[i - 1] \notin WhiteSpace THEN 32
                      ELSE -1]
    IN  SelectSeq(marked, LAMBDA c : c # -1)

\* sanitizeFilename(filename)
sanitizeFilename(filename) ==
    LET kept == SelectSeq(filename, LAMBDA c : c \notin FilenameForbidden)
        trimmed == Trim(CollapseWhiteSpace(kept))
        ended == SubSeq(trimmed, 1, Len(trimmed) - TrailingIn(trimmed, {46, 32}))
        cleaned == SubSeq(ended, 1, Min(160, Len(ended)))
    IN  OrElse(cleaned, <<100, 111, 119, 110, 108, 111, 97, 100>>)

\* createContentDispositionHeader(filename)
createContentDispositionHeader(filename) ==
    LET safe == sanitizeFilename(filename)
        asciiFallback == OrElse(SelectSeq(safe, LAMBDA c : c \in 32..126), <<100, 111, 119, 110, 108, 111, 97, 100>>)
        encoded == encodeURIComponent(safe)
    IN  <<97, 116, 116, 97, 99, 104, 109, 101, 110, 116, 59, 32, 102, 105, 108, 101, 110, 97, 109, 101, 61, 34>> \o asciiFallback \o <<34, 59, 32, 102, 105, 108, 101, 110, 97, 109, 101, 42, 61, 85, 84, 70, 45, 56, 39, 39>> \o encoded

---------------------------------------------------------------------------
(* GET /api/m3u/download: the relay *)

\* a ?? b
NullishOr(a, b) == IF a = Undefined THEN b ELSE a

DefaultRange == <<98, 121, 116, 101, 115, 61, 48, 45>>
DefaultUserAgent ==
    <<77, 111, 122, 105, 108, 108, 97, 47, 53, 46, 48, 32, 40, 87, 105, 110, 100, 111, 119, 115, 32, 78, 84, 32, 49, 48, 46, 48, 59, 32, 87, 105, 110, 54, 52, 59, 32, 120, 54, 52, 41, 32, 65, 112, 112, 108, 101, 87, 101, 98, 75, 105, 116, 47, 53, 51, 55, 46, 51, 54, 32, 40, 75, 72, 84, 77, 76, 44, 32, 108, 105, 107, 101, 32, 71, 101, 99, 107, 111, 41, 32, 67, 104, 114, 111, 109, 101, 47, 49, 50, 48, 46, 48, 46, 48, 46, 48, 32, 83, 97, 102, 97, 114, 105, 47, 53, 51, 55, 46, 51, 54>>
DefaultAcceptLanguage == <<116, 114, 45, 84, 82, 44, 116, 114, 59, 113, 61, 48, 46, 57, 44, 101, 110, 45, 85, 83, 59, 113, 61, 48, 46, 56, 44, 101, 110, 59, 113, 61, 48, 46, 55>>

\* the headers option of the fetch call, by header name
OutboundHeaders(req) ==
    ("range" :> NullishOr(req.range, DefaultRange))
    @@ ("user-agent" :> NullishOr(req.userAgent, DefaultUserAgent))
    @@ ("accept" :> <<42, 47, 42>>)
    @@ ("accept-language" :> NullishOr(req.acceptLanguage, DefaultAcceptLanguage))
    @@ ("referer" :> req.origin \o <<47>>)

\* a gate that lets every scheme through
AnyProtocol(protocol) == TRUE

\* targetUrl.protocol is "http:" or "https:"
ProtocolAllowed(protocol) == protocol = <<104, 116, 116, 112, 58>> \/ protocol = <<104, 116, 116, 112, 115, 58>>

\* an upstream check that accepts 200 alone
OnlyStatus200(status) == status = 200

\* upstream.ok || upstream.status === 206
UpstreamAccepted(status) == (status >= 200 /\ status <= 299) \/ status = 206

\* the upstream response headers the relay reads
PassThrough == {"content-type", "content-length", "content-range", "accept-ranges"}

\* every header of the upstream response
EveryUpstreamHeader(u) == {n \in DOMAIN u.headers : u.headers[n] # Undefined}

\* the upstream headers copied to the response: those of the four that are truthy
CopiedHeaders(u) == {n \in PassThrough : Truthy(u.headers[n])}

\* the headers the relay always sets
FixedHeaders(finalName) ==
    ("content-disposition" :> createContentDispositionHeader(finalName))
    @@ ("cache-control" :> <<110, 111, 45, 99, 97, 99, 104, 101, 44, 32, 110, 111, 45, 115, 116, 111, 114, 101, 44, 32, 109, 117, 115, 116, 45, 114, 101, 118, 97, 108, 105, 100, 97, 116, 101>>)
    @@ ("pragma" :> <<110, 111, 45, 99, 97, 99, 104, 101>>)
    @@ ("expires" :> <<48>>)

\* the Headers object of the success response, by lower-case header name
ResponseHeaders(u, finalName) ==
    FixedHeaders(finalName) @@ [n \in CopiedHeaders(u) |-> u.headers[n]]

\* targetUrl.pathname.split("/").pop() || "download"
LastSegment(pathname) ==
    LET segments == SplitOn(pathname, 47)
    IN  OrElse(segments[Len(segments)], <<100, 111, 119, 110, 108, 111, 97, 100>>)

\* NextResponse.json({ error }, { status: 400 })
ClientError(message) == [status |-> 400, body |-> [error |-> message], headers |-> <<>>]

ErrInvalidUrl == "Gecersiz url"
ErrBlockedUrl == "Engellenen url"
ErrNotDownloaded == "Indirilemedi"

\* the handler after fetch resolved to u: the gateway error, a thrown URIError, or the
\* upstream response passed on
AnswerTo(req, url, u) ==
    IF ~UpstreamAccepted(u.status)
    THEN [threw |-> FALSE,
          response |-> [status |-> 502,
                        body |-> [error |-> ErrNotDownloaded, status |-> u.status],
                        headers |-> <<>>]]
    ELSE LET filenameFromPath == decodeURIComponent(LastSegment(url.pathname))
             finalName == sanitizeFilename(
                              OrElse(req.filename, OrElse(filenameFromPath.text, <<100, 111, 119, 110, 108, 111, 97, 100>>)))
         IN  IF ~filenameFromPath.ok THEN [threw |-> TRUE, response |-> "none"]
             ELSE [threw |-> FALSE,
                   response |-> [status |-> u.status, body |-> u.body,
                                 headers |-> ResponseHeaders(u, finalName)]]

\* the text of a dotted quad
QuadText(q) ==
    ToDecimal(q[1]) \o <<46>> \o ToDecimal(q[2]) \o <<46>> \o ToDecimal(q[3])
    \o <<46>> \o ToDecimal(q[4])

\* the dotted quads asked for: first and second numbers on and around the borders of
\* the ranges, with two endings
Quads ==
    { <<a, b, cd[1], cd[2]>> :
         a \in {0, 9, 10, 11, 93, 126, 127, 128, 169, 172, 192, 255},
         b \in {0, 15, 16, 31, 32, 168, 184, 254, 255},
         cd \in {<<0, 0>>, <<216, 34>>} }

\* the url parameters of the requests that carry headers
RelayUrls ==
    { Undefined,
      <<104, 116, 116, 112, 58, 47, 47, 101, 120, 97, 109, 112, 108, 101, 46, 99, 111, 109, 47, 97, 46, 116, 115>>,
      <<104, 116, 116, 112, 115, 58, 47, 47, 69, 88, 65, 77, 80, 76, 69, 46, 99, 111, 109>>,
      <<104, 116, 116, 112, 58, 47, 47, 101, 120, 97, 109, 112, 108, 101, 46, 99, 111, 109, 47, 37, 90, 90>>,
      <<104, 116, 116, 112, 58, 47, 47, 101, 120, 97, 109, 112, 108, 101, 46, 99, 111, 109, 47, 37, 67, 51, 37, 65, 57, 37, 50, 48, 98, 46, 116, 115>>,
      <<102, 116, 112, 58, 47, 47, 101, 120, 97, 109, 112, 108, 101, 46, 99, 111, 109, 47, 97>>,
      <<102, 105, 108, 101, 58, 47, 47, 47, 101, 116, 99, 47, 112, 97, 115, 115, 119, 100>>,
      <<97, 46, 116, 115>>,
      <<104, 116, 116, 112, 58, 47, 47, 49, 46, 50, 46, 51, 46, 50, 53, 54, 47, 97>>,
      <<104, 116, 116, 112, 58, 47, 47, 108, 111, 99, 97, 108, 104, 111, 115, 116, 58, 56, 48, 56, 48, 47, 97>>,
      <<104, 116, 116, 112, 58, 47, 47, 76, 79, 67, 65, 76, 72, 79, 83, 84, 47, 97>>,
      <<104, 116, 116, 112, 58, 47, 47, 49, 50, 55, 46, 49, 47, 97>>,
      <<104, 116, 116, 112, 58, 47, 47, 91, 58, 58, 49, 93, 47, 97>> }

RelayOrigin == <<104, 116, 116, 112, 58, 47, 47, 114, 101, 108, 97, 121>>

\* the requests: every url above with and without a filename parameter and the Range,
\* If-Range, User-Agent and Accept-Language headers; every quad without them
RelayRequests ==
    [url : RelayUrls,
     filename : {Undefined, <<102, 34, 49, 34, 46, 116, 115>>},
     range : {Undefined, <<98, 121, 116, 101, 115, 61, 53, 45>>},
     ifRange : {Undefined, <<34, 101, 49, 34>>},
     userAgent : {Undefined, <<85, 65>>},
     acceptLanguage : {Undefined, <<101, 110>>},
     origin : {RelayOrigin}]

QuadRequest(q) ==
    [url |-> <<104, 116, 116, 112, 58, 47, 47>> \o QuadText(q) \o <<47, 97>>, filename |-> Undefined, range |-> Undefined,
     ifRange |-> Undefined, userAgent |-> Undefined, acceptLanguage |-> Undefined,
     origin |-> RelayOrigin]

\* the values an upstream header is given: absent, empty, a value
HeaderValues == {Undefined, <<>>, <<118>>}

\* what fetch can resolve to: an accepted status with every combination of the four
\* headers, and refused statuses; a Set-Cookie header comes with every response
UpstreamResponses ==
    { [status |-> st, body |-> "upstream body", headers |-> h @@ ("set-cookie" :> <<99>>)] :
         st \in {200, 206}, h \in [PassThrough -> HeaderValues] }
    \cup { [status |-> st, body |-> "upstream body",
            headers |-> [n \in PassThrough |-> Undefined] @@ ("set-cookie" :> <<99>>)] :
              st \in {204, 299, 304, 404, 416, 500, 502} }

InitRelay ==
    /\ \/ request \in RelayRequests /\ shape = <<>>
       \/ \E q \in Quads : request = QuadRequest(q) /\ shape = q
    /\ targetUrl = "none"
    /\ outbound = <<>>
    /\ upstream = "none"
    /\ trail = <<>>
    /\ response = "none"
    /\ pc = "get"
    /\ PageIdle
    /\ channels = NewParser.channels
    /\ currentInfo = NewParser.currentInfo
    /\ buffer = NewParser.buffer
    /\ channelId = NewParser.channelId
    /\ input = <<>>
    /\ pos = 0
    /\ lastReturn = <<>>
    /\ parseReturns = <<>>
    /\ run = 1
    /\ issued = <<>>
    /\ crlfCut = FALSE
    /\ file = <<>>
    /\ offset = 0

parserVars == <<channels, currentInfo, buffer, channelId, input, pos, lastReturn,
                parseReturns, run, issued, crlfCut, shape, file, offset>>

\* GET without a url parameter: the description of the endpoint
GetInfo ==
    /\ pc = "get"
    /\ ~Truthy(request.url)
    /\ response' = [status |-> 200, body |-> [name |-> "M3U Download Endpoint"],
                    headers |-> <<>>]
    /\ pc' = "responded"
    /\ UNCHANGED <<request, targetUrl, outbound, upstream, trail>>
    /\ UNCHANGED parserVars
    /\ UNCHANGED pageVars

\* targetUrl = new URL(urlParam), 400 when it throws
RelayParseUrl ==
    /\ pc = "get"
    /\ Truthy(request.url)
    /\ \E u \in {ParseUrl(request.url)} :
          /\ targetUrl' = u
          /\ IF u.ok THEN pc' = "protocol" /\ UNCHANGED response
             ELSE pc' = "responded" /\ response' = ClientError(ErrInvalidUrl)
    /\ trail' = Append(trail, "url")
    /\ UNCHANGED <<request, outbound, upstream>>
    /\ UNCHANGED parserVars
    /\ UNCHANGED pageVars

\* the protocol gate
RelayCheckProtocol ==
    /\ pc = "protocol"
    /\ IF ProtocolAllowed(targetUrl.protocol) THEN pc' = "hostname" /\ UNCHANGED response
       ELSE pc' = "responded" /\ response' = ClientError(ErrInvalidUrl)
    /\ trail' = Append(trail, "protocol")
    /\ UNCHANGED <<request, targetUrl, outbound, upstream>>
    /\ UNCHANGED parserVars
    /\ UNCHANGED pageVars

\* the blocked-hostname gate
RelayCheckHostname ==
    /\ pc = "hostname"
    /\ IF isBlockedHostname(targetUrl.hostname)
       THEN pc' = "responded" /\ response' = ClientError(ErrBlockedUrl)
       ELSE pc' = "fetch" /\ UNCHANGED response
    /\ trail' = Append(trail, "hostname")
    /\ UNCHANGED <<request, targetUrl, outbound, upstream>>
    /\ UNCHANGED parserVars
    /\ UNCHANGED pageVars

\* fetch(targetUrl.toString(), { headers, redirect: "follow" }) is issued
RelayFetch ==
    /\ pc = "fetch"
    /\ outbound' = Append(outbound, [url |-> targetUrl.href,
                                     headers |-> OutboundHeaders(request),
                                     redirect |-> "follow"])
    /\ pc' = "await"
    /\ trail' = Append(trail, "fetch")
    /\ UNCHANGED <<request, targetUrl, upstream, response>>
    /\ UNCHANGED parserVars
    /\ UNCHANGED pageVars

\* fetch resolves and the handler runs to its end
RelayAnswer ==
    /\ pc = "await"
    /\ \E u \in UpstreamResponses :
          /\ upstream' = u
          /\ \E a \in {AnswerTo(request, targetUrl, u)} :
                IF a.threw THEN pc' = "threw" /\ UNCHANGED response
                ELSE pc' = "responded" /\ response' = a.response
    /\ trail' = Append(trail, "answer")
    /\ UNCHANGED <<request, targetUrl, outbound>>
    /\ UNCHANGED parserVars
    /\ UNCHANGED pageVars

\* fetch rejects (no connection, a redirect loop): the exception leaves the handler
RelayFetchRejects ==
    /\ pc = "await"
    /\ pc' = "threw"
    /\ trail' = Append(trail, "rejected")
    /\ UNCHANGED <<request, targetUrl, outbound, upstream, response>>
    /\ UNCHANGED parserVars
    /\ UNCHANGED pageVars

NextRelay ==
    \/ GetInfo
    \/ RelayParseUrl
    \/ RelayCheckProtocol
    \/ RelayCheckHostname
    \/ RelayFetch
    \/ RelayAnswer
    \/ RelayFetchRejects

SpecRelay == InitRelay /\ [][NextRelay]_vars

---------------------------------------------------------------------------
(* POST /api/m3u/download: the generate endpoint *)

\* the letters of the character class of generateFilename beyond a-z, A-Z and 0-9
TurkishLetters == {287, 252, 351, 305, 246, 231, 286, 220, 350, 304, 214, 199}

\* what /[^a-zA-Z0-9<Turkish letters>\s-]/g leaves in place
FilenameKept ==
    (97..122) \cup (65..90) \cup Digit \cup TurkishLetters \cup WhiteSpace \cup {45}

\* generateFilename(channelName, count), date being new Date().toISOString().split("T")[0]
generateFilename(channelName, count, date) ==
    LET trimmed == Trim(SelectSeq(channelName, LAMBDA c : c \in FilenameKept))
        safeName == SubSeq(trimmed, 1, Min(50, Len(trimmed)))
    IN  OrElse(safeName, <<99, 104, 97, 110, 110, 101, 108, 115>>) \o <<95>> \o ToDecimal(count) \o <<95>> \o date

\* filename || generateFilename(channels[0].tvgNameAttribute || channels[0].tvgName, channels.length)
FinalFilename(body, date) ==
    OrElse(body.filename,
           generateFilename(OrElse(body.channels[1].tvgNameAttribute,
                                   body.channels[1].tvgName),
                            Len(body.channels), date))

\* the Content-Disposition value with the final filename passed through
\* sanitizeFilename first
SanitizedDisposition(finalFilename) ==
    <<97, 116, 116, 97, 99, 104, 109, 101, 110, 116, 59, 32, 102, 105, 108, 101, 110, 97, 109, 101, 61, 34>> \o sanitizeFilename(finalFilename) \o <<46, 109, 51, 117, 34>>

\* `attachment; filename="${finalFilename}.m3u"`
DownloadDisposition(finalFilename) ==
    <<97, 116, 116, 97, 99, 104, 109, 101, 110, 116, 59, 32, 102, 105, 108, 101, 110, 97, 109, 101, 61, 34>> \o finalFilename \o <<46, 109, 51, 117, 34>>

\* Buffer.byteLength(text): the number of UTF-8 bytes of the text. A code unit below
\* U+0080 takes one byte, one below U+0800 two, each half of a surrogate pair two,
\* any other three.
ByteLength(text) ==
    LET n == Len(text)
        paired(i) == \/ /\ text[i] \in 55296..56319
                         /\ i < n /\ text[i + 1] \in 56320..57343
                     \/ /\ text[i] \in 56320..57343
                         /\ i > 1 /\ text[i - 1] \in 55296..56319
    IN  n + Cardinality({ i \in 1..n : text[i] >= 128 })
          + Cardinality({ i \in 1..n : text[i] >= 2048 /\ ~paired(i) })

\* the headers option of new NextResponse(m3uContent, ...), by lower-case name
DownloadHeaders(finalFilename, m3uContent) ==
    ("content-type" :> <<97, 117, 100, 105, 111, 47, 120, 45, 109, 112, 101, 103, 117, 114, 108, 59, 32, 99, 104, 97, 114, 115, 101, 116, 61, 117, 116, 102, 45, 56>>)
    @@ ("content-disposition" :> DownloadDisposition(finalFilename))
    @@ ("content-length" :> ToDecimal(ByteLength(m3uContent)))
    @@ ("accept-ranges" :> <<98, 121, 116, 101, 115>>)
    @@ ("cache-control" :> <<110, 111, 45, 99, 97, 99, 104, 101, 44, 32, 110, 111, 45, 115, 116, 111, 114, 101, 44, 32, 109, 117, 115, 116, 45, 114, 101, 118, 97, 108, 105, 100, 97, 116, 101>>)
    @@ ("pragma" :> <<110, 111, 45, 99, 97, 99, 104, 101>>)
    @@ ("expires" :> <<48>>)

\* a header value the Headers object of the response takes: a byte string (no code
\* unit above 255) without NUL, CR or LF; any other value makes the constructor
\* throw a TypeError
HeaderValueAccepted(value) ==
    \A i \in 1..Len(value) : value[i] <= 255 /\ value[i] \notin {0, 10, 13}

\* the Response constructor of the success path: the response, or the exception
NewDownloadResponse(finalFilename, m3uContent) ==
    LET headers == DownloadHeaders(finalFilename, m3uContent)
    IN  IF \A n \in DOMAIN headers : HeaderValueAccepted(headers[n])
        THEN [threw |-> FALSE,
              response |-> [status |-> 200, body |-> m3uContent, headers |-> headers]]
        ELSE [threw |-> TRUE, response |-> "none"]

\* the catch block of POST
DownloadFailure ==
    [status |-> 500, body |-> [error |-> "Dosya indirilirken hata olustu",
                               details |-> "TypeError"], headers |-> <<>>]

\* the entries of the requests to the generate endpoint: display names in ASCII, with
\* Turkish letters below and above U+00FF, and without any letter
DownloadEntries ==
    [id : {ChannelIdOf(0)},
     tvgName : {Name_A, <<220, 110, 108, 252>>, <<350, 111, 118>>, <<63>>},  \* A, Ünlü, Şov, ?
     tvgNameAttribute : {Undefined, <<75, 45, 49>>},                          \* none, K-1
     tvgLogo : {Undefined},
     tvgId : {Undefined},
     tvgCountry : {Undefined},
     tvgLanguage : {Undefined},
     groupTitle : {Group_G},
     url : {UrlA}]

\* the filename field of the request: none, a plain name, a name with a letter above
\* U+00FF, a name that closes the quoted string, a name with a line break
DownloadFilenames ==
    { Undefined, <<109, 121, 32, 108, 105, 115, 116>>, <<350, 111, 118>>, <<97, 34, 59, 32, 120, 61, 34, 121>>, <<97, 13, 10, 88, 58, 32, 121>> }

\* the request bodies: the channel list absent (listed is FALSE), empty, or of one or
\* two entries
DownloadBodies ==
    [listed : {TRUE},
     channels : {<<>>} \cup UNION { [1..n -> DownloadEntries] : n \in 1..MaxEntries },
     filename : DownloadFilenames]
    \cup [listed : {FALSE}, channels : {<<>>}, filename : DownloadFilenames]

\* what new Date().toISOString().split("T")[0] gives on the days of the requests
Dates == { <<50, 48, 50, 53, 45, 48, 49, 45, 51, 49>>, <<50, 48, 50, 54, 45, 49, 49, 45, 48, 53>> }

InitDownload ==
    /\ request \in DownloadBodies
    /\ pc = "post"
    /\ response = "none"
    /\ targetUrl = "none"
    /\ outbound = <<>>
    /\ upstream = "none"
    /\ trail = <<>>
    /\ PageIdle
    /\ channels = NewParser.channels
    /\ currentInfo = NewParser.currentInfo
    /\ buffer = NewParser.buffer
    /\ channelId = NewParser.channelId
    /\ input = <<>>
    /\ pos = 0
    /\ lastReturn = <<>>
    /\ parseReturns = <<>>
    /\ run = 1
    /\ issued = <<>>
    /\ crlfCut = FALSE
    /\ shape = <<>>
    /\ file = <<>>
    /\ offset = 0

\* POST up to the generator: if (!channels || channels.length === 0) return 400
DownloadValidate ==
    /\ pc = "post"
    /\ IF ~request.listed \/ Len(request.channels) = 0
       THEN /\ response' = [status |-> 400, body |-> [error |-> "Indirilecek kanal bulunamadi"],
                            headers |-> <<>>]
            /\ pc' = "responded"
       ELSE /\ pc' = "generate"
            /\ UNCHANGED response
    /\ UNCHANGED <<request, targetUrl, outbound, upstream, trail>>
    /\ UNCHANGED parserVars
    /\ UNCHANGED pageVars

\* const m3uContent = generateM3UContent(channels)
DownloadGenerate ==
    /\ pc = "generate"
    /\ input' = generateM3UContent(request.channels)
    /\ trail' = Append(trail, "generateM3UContent")
    /\ pc' = "respond"
    /\ UNCHANGED <<request, targetUrl, outbound, upstream, response>>
    /\ UNCHANGED <<channels, currentInfo, buffer, channelId, pos, lastReturn,
                   parseReturns, run, issued, crlfCut, shape, file, offset>>
    /\ UNCHANGED pageVars

\* the final filename and new NextResponse(...); an exception ends in the catch block
DownloadRespond ==
    /\ pc = "respond"
    /\ \E date \in Dates :
          \E r \in {NewDownloadResponse(FinalFilename(request, date), input)} :
             /\ response' = IF r.threw THEN DownloadFailure ELSE r.response
             /\ trail' = Append(trail, IF r.threw THEN "catch" ELSE "NextResponse")
    /\ pc' = "responded"
    /\ UNCHANGED <<request, targetUrl, outbound, upstream>>
    /\ UNCHANGED parserVars
    /\ UNCHANGED pageVars

NextDownload == DownloadValidate \/ DownloadGenerate \/ DownloadRespond

SpecDownload == InitDownload /\ [][NextDownload]_vars

---------------------------------------------------------------------------
(* sanitizeFilename applied to names, and to its own result *)

\* length of the short names
MaxNameLen == 3

\* the characters the names are made of: a, space, dot, double quote, tab, no-break
\* space, DEL
NameAlphabet == {97, 32, 46, 34, 9, 160, 127}

ShortNames == UNION { [1..n -> NameAlphabet] : n \in 0..MaxNameLen }

\* 159 letters: a name that the length cap of sanitizeFilename cuts inside its ending
LongStem == [i \in 1..159 |-> 97]

\* the names handed to sanitizeFilename: every short name, and the long stem followed
\* by a short ending
Filenames ==
    ShortNames \cup { LongStem \o t : t \in { s \in ShortNames : Len(s) = 2 } }

InitSanitize ==
    /\ input \in Filenames
    /\ pc = "name"
    /\ lastReturn = <<>>
    /\ response = "none"
    /\ RelayIdle
    /\ PageIdle
    /\ channels = NewParser.channels
    /\ currentInfo = NewParser.currentInfo
    /\ buffer = NewParser.buffer
    /\ channelId = NewParser.channelId
    /\ pos = 0
    /\ parseReturns = <<>>
    /\ run = 1
    /\ issued = <<>>
    /\ crlfCut = FALSE
    /\ shape = <<>>
    /\ file = <<>>
    /\ offset = 0

\* const finalName = sanitizeFilename(...), the call of the relay
Sanitize ==
    /\ pc = "name"
    /\ lastReturn' = sanitizeFilename(input)
    /\ pc' = "finalName"
    /\ UNCHANGED <<channels, currentInfo, buffer, channelId, input, pos, parseReturns,
                   run, issued, crlfCut, shape, file, offset, response>>
    /\ UNCHANGED relayVars
    /\ UNCHANGED pageVars

\* const safe = sanitizeFilename(filename), the call of createContentDispositionHeader
\* on the relay's finalName
SanitizeAgain ==
    /\ pc = "finalName"
    /\ parseReturns' = sanitizeFilename(lastReturn)
    /\ pc' = "safe"
    /\ UNCHANGED <<channels, currentInfo, buffer, channelId, input, pos, lastReturn,
                   run, issued, crlfCut, shape, file, offset, response>>
    /\ UNCHANGED relayVars
    /\ UNCHANGED pageVars

NextSanitize == Sanitize \/ SanitizeAgain

SpecSanitize == InitSanitize /\ [][NextSanitize]_vars

---------------------------------------------------------------------------
(* The page's parseM3U, and the two parsers on the same text *)

Diger == <<68, 105, 287, 101, 114>>               \* "Diğer"

\* the #EXTINF: branch of parseM3U: the new value of currentInfo. The attribute and
\* display name patterns are matched against infoLine itself.
ClientInfo(line) ==
    LET infoLine == Substring(line, 8)
        tvgNameMatch == MatchAttribute(infoLine, TvgNameKey)
        displayNameMatch == DisplayNameMatch(infoLine)
        displayName == IF displayNameMatch # Undefined
                       THEN Trim(displayNameMatch) ELSE Unknown
    IN  [tvgName |-> OrElse(displayName, OrElse(tvgNameMatch, Unknown)),
         tvgNameAttribute |-> tvgNameMatch,
         tvgLogo |-> MatchAttribute(infoLine, TvgLogoKey),
         tvgId |-> MatchAttribute(infoLine, TvgIdKey),
         tvgCountry |-> MatchAttribute(infoLine, TvgCountryKey),
         tvgLanguage |-> MatchAttribute(infoLine, TvgLanguageKey),
         groupTitle |-> OrElse(MatchAttribute(infoLine, GroupTitleKey), Diger)]

\* { ...currentInfo, url: line, id: `channel-${parsedChannels.length}` }
ClientChannel(info, url, n) ==
    [id |-> ChannelIdOf(n), tvgName |-> info.tvgName,
     tvgNameAttribute |-> info.tvgNameAttribute, tvgLogo |-> info.tvgLogo,
     tvgId |-> info.tvgId, tvgCountry |-> info.tvgCountry,
     tvgLanguage |-> info.tvgLanguage, groupTitle |-> info.groupTitle, url |-> url]

\* one iteration of the loop of parseM3U; st carries parsedChannels and currentInfo,
\* {} being the record without tvgName
ClientLine(st, rawLine) ==
    LET line == Trim(rawLine)
    IN  IF line = <<>> \/ StartsWith(line, ExtM3U) THEN st
        ELSE IF StartsWith(line, ExtInf)
             THEN [st EXCEPT !.currentInfo = ClientInfo(line)]
        ELSE IF StartsWith(line, Http)
             THEN [parsedChannels |->
                      IF Truthy(st.currentInfo.tvgName)
                      THEN Append(st.parsedChannels,
                                  ClientChannel(st.currentInfo, line,
                                                Len(st.parsedChannels)))
                      ELSE st.parsedChannels,
                   currentInfo |-> [tvgName |-> Undefined]]
        ELSE st

RECURSIVE ClientLines(_, _, _)
ClientLines(st, lines, i) ==
    IF i > Len(lines) THEN st
    ELSE ClientLines(ClientLine(st, lines[i]), lines, i + 1)

\* parseM3U(content)
parseM3U(content) ==
    ClientLines([parsedChannels |-> <<>>, currentInfo |-> [tvgName |-> Undefined]],
                SplitLines(content), 1).parsedChannels

\* a text of two entries written from one info line shape; the last line has no
\* line feed
InitAgree ==
    /\ shape \in InfoShapes
    /\ input = InfoLineOf(shape) \o <<10>> \o UrlA \o <<10>>
               \o InfoLineOf(shape) \o <<13, 10>> \o UrlB
    /\ pos = 0
    /\ channels = NewParser.channels
    /\ currentInfo = NewParser.currentInfo
    /\ buffer = NewParser.buffer
    /\ channelId = NewParser.channelId
    /\ pc = "page"
    /\ lastReturn = <<>>
    /\ parseReturns = <<>>
    /\ run = 1
    /\ issued = <<>>
    /\ crlfCut = FALSE
    /\ file = <<>>
    /\ offset = 0
    /\ response = "none"
    /\ RelayIdle
    /\ PageIdle

\* const parsedChannels = parseM3U(fileContent), in the browser
ClientParse ==
    /\ pc = "page"
    /\ parsedChannels' = parseM3U(input)
    /\ pc' = "feeding"
    /\ UNCHANGED <<view, selectedCategory, currentPage, searchQuery, debouncedSearchQuery,
                   isLoading, reading, timers>>
    /\ UNCHANGED parserVars
    /\ UNCHANGED <<response, request, targetUrl, outbound, upstream, trail>>

NextAgree == ClientParse \/ ParseWhole \/ FinalizeFed

SpecAgree == InitAgree /\ [][NextAgree]_vars

---------------------------------------------------------------------------
(* The page: the M3UPlayer component's views, uploads and pagination *)

\* itemsPerPage: 20 in the source, scaled down here so that a category of a few
\* entries spans several pages
ItemsPerPage == 1

\* number of uploads being read or waiting for their switch to the categories view
MaxPending == 2

\* the categories shown as cards: the group names of the channel list
categories(list) == { OrElse(list[i].groupTitle, Diger) : i \in 1..Len(list) }

\* name.toLowerCase().includes(query) on an optional string
Includes(name, query) ==
    name # Undefined /\ IndexOf(ToLowerCase(name), query, 1) # 0

\* filteredChannels, contentFilter being "all" (the page never sets it)
filteredChannels ==
    LET result == SelectSeq(channels, LAMBDA c : c.groupTitle = selectedCategory)
        query == ToLowerCase(debouncedSearchQuery)
    IN  IF ~Truthy(debouncedSearchQuery) THEN result
        ELSE SelectSeq(result, LAMBDA c : \/ Includes(c.tvgName, query)
                                          \/ Includes(c.tvgCountry, query)
                                          \/ Includes(c.tvgLanguage, query))

\* Math.ceil(filteredChannels.length / itemsPerPage)
totalPages == (Len(filteredChannels) + ItemsPerPage - 1) \div ItemsPerPage

\* filteredChannels.slice(startIndex, endIndex)
displayedChannels ==
    LET startIndex == (currentPage - 1) * ItemsPerPage
    IN  SubSeq(filteredChannels, startIndex + 1,
               Min(startIndex + ItemsPerPage, Len(filteredChannels)))

\* the number on the i-th page button (i from 0)
PageNumAt(i) ==
    IF totalPages <= 5 THEN i + 1
    ELSE IF currentPage <= 3 THEN i + 1
    ELSE IF currentPage >= totalPages - 2 THEN totalPages - 4 + i
    ELSE currentPage - 2 + i

\* the detail view is rendered
DetailShown == view = "detail" /\ Truthy(selectedCategory)

\* a playlist line pair: an entry named name in group group
EntryText(group, name) ==
    InfoLineOf([duration |-> <<45, 49>>, name |-> Undefined, group |-> group,
                suffix |-> name]) \o <<10>> \o UrlA \o <<10>>

\* the files dropped on the page: a playlist without entries, and one with six
\* entries in group G and one in group H
PageFiles ==
    { ExtM3U \o <<10>>,
      ExtM3U \o <<10>> \o EntryText(Group_G, <<97>>) \o EntryText(Group_G, <<98>>)
        \o EntryText(Group_G, <<97>>) \o EntryText(Group_G, <<98>>)
        \o EntryText(Group_G, <<97>>) \o EntryText(Group_G, <<98>>)
        \o EntryText(Group_H, <<97>>) }

\* the texts typed into the search box
SearchTexts == { <<>>, <<97>> }

\* the component as mounted, over an empty localStorage
InitPage ==
    /\ PageIdle
    /\ channels = <<>>
    /\ pc = "page"
    /\ currentInfo = NewParser.currentInfo
    /\ buffer = NewParser.buffer
    /\ channelId = NewParser.channelId
    /\ input = <<>>
    /\ pos = 0
    /\ lastReturn = <<>>
    /\ parseReturns = <<>>
    /\ run = 1
    /\ issued = <<>>
    /\ crlfCut = FALSE
    /\ shape = <<>>
    /\ file = <<>>
    /\ offset = 0
    /\ response = "none"
    /\ RelayIdle

\* the variables no event of the page writes
offPage == <<currentInfo, buffer, channelId, input, pos, pc, lastReturn, parseReturns,
             run, issued, crlfCut, shape, file, offset, response, request, targetUrl,
             outbound, upstream, trail, parsedChannels>>

\* handleDrop / handleFileInputChange: handleFileUpload(file) up to its first await
StartUpload(text) ==
    /\ view = "upload"
    /\ Len(reading) + timers < MaxPending
    /\ isLoading' = TRUE
    /\ reading' = Append(reading, text)
    /\ UNCHANGED <<channels, view, selectedCategory, currentPage, searchQuery,
                   debouncedSearchQuery, timers>>
    /\ UNCHANGED offPage

\* handleFileUpload after its awaits: parseM3U, setChannels, the 500 ms timer, finally
UploadCompletes ==
    /\ reading # <<>>
    /\ channels' = parseM3U(Head(reading))
    /\ reading' = Tail(reading)
    /\ timers' = timers + 1
    /\ isLoading' = FALSE
    /\ UNCHANGED <<view, selectedCategory, currentPage, searchQuery, debouncedSearchQuery>>
    /\ UNCHANGED offPage

\* handleFileUpload when readFile rejects: the catch block, finally
UploadFails ==
    /\ reading # <<>>
    /\ reading' = Tail(reading)
    /\ isLoading' = FALSE
    /\ UNCHANGED <<channels, view, selectedCategory, currentPage, searchQuery,
                   debouncedSearchQuery, timers>>
    /\ UNCHANGED offPage

\* setTimeout(() => { setView("categories") }, 500) fires
SwitchToCategories ==
    /\ timers > 0
    /\ timers' = timers - 1
    /\ view' = "categories"
    /\ UNCHANGED <<channels, selectedCategory, currentPage, searchQuery,
                   debouncedSearchQuery, isLoading, reading>>
    /\ UNCHANGED offPage

\* clearAllData, the button rendered while channels.length > 0
ClearAllData ==
    /\ Len(channels) > 0
    /\ channels' = <<>>
    /\ view' = "upload"
    /\ selectedCategory' = Undefined
    /\ UNCHANGED <<currentPage, searchQuery, debouncedSearchQuery, isLoading, reading,
                   timers>>
    /\ UNCHANGED offPage

\* CategoryCard onClick
OpenCategory(name) ==
    /\ view = "categories"
    /\ name \in categories(channels)
    /\ selectedCategory' = name
    /\ view' = "detail"
    /\ UNCHANGED <<channels, currentPage, searchQuery, debouncedSearchQuery, isLoading,
                   reading, timers>>
    /\ UNCHANGED offPage

\* Back to Categories
BackToCategories ==
    /\ DetailShown
    /\ selectedCategory' = Undefined
    /\ view' = "categories"
    /\ UNCHANGED <<channels, currentPage, searchQuery, debouncedSearchQuery, isLoading,
                   reading, timers>>
    /\ UNCHANGED offPage

\* the search box: onChange={(e) => setSearchQuery(e.target.value)}
TypeSearch(text) ==
    /\ DetailShown
    /\ text # searchQuery
    /\ searchQuery' = text
    /\ UNCHANGED <<channels, view, selectedCategory, currentPage, debouncedSearchQuery,
                   isLoading, reading, timers>>
    /\ UNCHANGED offPage

\* useDebounce: 300 ms after the last change the debounced value follows, and the
\* effect on [debouncedSearchQuery, contentFilter] runs: setCurrentPage(1)
DebounceSettles ==
    /\ debouncedSearchQuery # searchQuery
    /\ debouncedSearchQuery' = searchQuery
    /\ currentPage' = 1
    /\ UNCHANGED <<channels, view, selectedCategory, searchQuery, isLoading, reading,
                   timers>>
    /\ UNCHANGED offPage

\* the page is set by one of the pagination controls, rendered while totalPages > 1
SetCurrentPage(p) ==
    /\ DetailShown
    /\ totalPages > 1
    /\ currentPage' = p
    /\ UNCHANGED <<channels, view, selectedCategory, searchQuery, debouncedSearchQuery,
                   isLoading, reading, timers>>
    /\ UNCHANGED offPage

\* Önceki: setCurrentPage((p) => Math.max(1, p - 1)), disabled on page 1
PreviousPage ==
    /\ currentPage # 1
    /\ SetCurrentPage(IF currentPage - 1 > 1 THEN currentPage - 1 ELSE 1)

\* Sonraki: setCurrentPage((p) => Math.min(totalPages, p + 1)), disabled on the last page
FollowingPage ==
    /\ currentPage # totalPages
    /\ SetCurrentPage(Min(totalPages, currentPage + 1))

\* the i-th page button: setCurrentPage(pageNum)
PageButton(i) ==
    /\ i < Min(5, totalPages)
    /\ SetCurrentPage(PageNumAt(i))

NextPage ==
    \/ \E text \in PageFiles : StartUpload(text)
    \/ UploadCompletes
    \/ UploadFails
    \/ SwitchToCategories
    \/ ClearAllData
    \/ \E name \in {Group_G, Group_H} : OpenCategory(name)
    \/ BackToCategories
    \/ \E text \in SearchTexts : TypeSearch(text)
    \/ DebounceSettles
    \/ PreviousPage
    \/ FollowingPage
    \/ \E i \in 0..4 : PageButton(i)

SpecPage == InitPage /\ [][NextPage]_vars

---------------------------------------------------------------------------
(* What the format's rules expect of a text, line by line *)

\* the lines of a text: cut at every LF, a CR before the LF dropped
LinesOf(text) == SplitLines(text)

\* all lines but the last one, which has no LF yet
Terminated(lines) == SubSeq(lines, 1, Len(lines) - 1)

\* kind of a line: "info", "url", or "skip" for a blank, header or unrecognized line
LineKind(line) ==
    LET t == Trim(line)
    IN  IF t = <<>> \/ StartsWith(t, ExtM3U) THEN "skip"
        ELSE IF StartsWith(t, ExtInf) THEN "info"
        ELSE IF StartsWith(t, Http) THEN "url"
        ELSE "skip"

\* index of the nearest info-or-URL line before line j, 0 if there is none
RECURSIVE NearestBefore(_, _)
NearestBefore(lines, j) ==
    IF j <= 1 THEN 0
    ELSE IF LineKind(lines[j - 1]) # "skip" THEN j - 1
    ELSE NearestBefore(lines, j - 1)

\* line j is a URL line whose nearest preceding info-or-URL line is an info line
Paired(lines, j) ==
    /\ LineKind(lines[j]) = "url"
    /\ NearestBefore(lines, j) # 0
    /\ LineKind(lines[NearestBefore(lines, j)]) = "info"

\* the entries expected of the first n lines: one per paired URL line, in file order,
\* with the attributes of its info line alone and the next dense id
RECURSIVE ExpectedEntries(_, _)
ExpectedEntries(lines, n) ==
    IF n = 0 THEN <<>>
    ELSE LET before == ExpectedEntries(lines, n - 1)
         IN  IF Paired(lines, n)
             THEN Append(before,
                         MakeChannel(parseExtInfo(Trim(lines[NearestBefore(lines, n)])),
                                     Trim(lines[n]), Len(before)))
             ELSE before

\* the urls of the paired URL lines among the first n lines, in file order
RECURSIVE PairedUrls(_, _)
PairedUrls(lines, n) ==
    IF n = 0 THEN <<>>
    ELSE IF Paired(lines, n) THEN Append(PairedUrls(lines, n - 1), Trim(lines[n]))
    ELSE PairedUrls(lines, n - 1)

\* number of lines among the first n that are not paired URL lines and not the info
\* line of one: the lines the parser skipped
SkippedCount(lines, n) ==
    Cardinality({j \in 1..n : ~Paired(lines, j)
                              /\ ~(j < n /\ LineKind(lines[j]) = "info"
                                   /\ \E u \in (j + 1)..n :
                                         Paired(lines, u) /\ NearestBefore(lines, u) = j)})

\* the text after the last LF of a text
RECURSIVE AfterLastLF(_)
AfterLastLF(text) ==
    IF text = <<>> \/ text[Len(text)] = 10 THEN <<>>
    ELSE Append(AfterLastLF(SubSeq(text, 1, Len(text) - 1)), text[Len(text)])

---------------------------------------------------------------------------
(* Claims on the streaming parser *)

\* C1: chunk-boundary invariance. Whatever the partition of the fed text into chunks
\* (a cut inside a line or between a CR and its LF included), parse on the chunks in
\* order and then finalize leave the same ordered entry list, and return the same
\* list, as one parse call with the whole text followed by finalize.
C1_ChunkInvariance ==
    pc = "done" =>
        LET oneShot == finalize(parse(NewParser, fed).parser)
        IN  /\ channels = oneShot.parser.channels
            /\ lastReturn = oneShot.returned

\* C1 witness: a finished run of several chunks that produced an entry and had a chunk
\* boundary between a CR and its LF
C1_Witness ==
    /\ pc = "done"
    /\ crlfCut
    /\ Len(channels) >= 1

\* C3: id density and order. The i-th entry (from 0) has id channel-i and the entries
\* are in file order, however many lines were skipped in between.
C3_IdDensity ==
    LET lines == IF pc = "done" THEN LinesOf(fed) ELSE Terminated(LinesOf(fed))
    IN  /\ \A i \in 1..Len(channels) : channels[i].id = ChannelIdOf(i - 1)
        /\ channelId = Len(channels)
        /\ [i \in 1..Len(channels) |-> channels[i].url] = PairedUrls(lines, Len(lines))

\* C3 witness: a finished run with two entries and two skipped lines (an orphan info
\* line or an orphan URL line among them)
C3_Witness ==
    /\ pc = "done"
    /\ Len(channels) = 2
    /\ channels[1].url # channels[2].url
    /\ SkippedCount(LinesOf(fed), Len(LinesOf(fed))) >= 2

\* C5: info/URL pairing. An entry is produced for a URL line exactly when the nearest
\* preceding info-or-URL line is an info line, with the attributes of that info line
\* alone; after the complete lines fed so far the accumulator holds the last info
\* line if no URL line followed it and is empty otherwise.
C5_InfoUrlPairing ==
    LET lines == LinesOf(fed)
        complete == Terminated(lines)
        last == NearestBefore(complete, Len(complete) + 1)
    IN  /\ pc = "done" => channels = ExpectedEntries(lines, Len(lines))
        /\ pc = "feeding" =>
              /\ channels = ExpectedEntries(complete, Len(complete))
              /\ currentInfo = IF last # 0 /\ LineKind(complete[last]) = "info"
                               THEN parseExtInfo(Trim(complete[last]))
                               ELSE EmptyInfo

\* C5 witness: a finished run over info, info, URL with different info lines: one
\* entry, carrying the second info line's attributes
C5_Witness ==
    /\ pc = "done"
    /\ LET lines == LinesOf(fed)
       IN  /\ Len(lines) >= 3
           /\ LineKind(lines[1]) = "info" /\ LineKind(lines[2]) = "info"
           /\ LineKind(lines[3]) = "url"
           /\ parseExtInfo(Trim(lines[1])).tvgId # parseExtInfo(Trim(lines[2])).tvgId
    /\ Len(channels) = 1

\* C5 second case: info, URL, URL gives one entry
C5_WitnessSecondUrl ==
    /\ pc = "done"
    /\ LET lines == LinesOf(fed)
       IN  /\ Len(lines) >= 3
           /\ LineKind(lines[1]) = "info" /\ LineKind(lines[2]) = "url"
           /\ LineKind(lines[3]) = "url"
    /\ Len(channels) = 1

\* C6: no premature classification. While chunks are fed, the text after the last LF
\* is held in the buffer and the entries and the accumulator are those of the
\* terminated lines alone; finalize adds one entry exactly when the unterminated line
\* is a URL line and an accumulator is pending, and adds none for an info line.
C6_NoPrematureClassification ==
    LET lines == LinesOf(fed)
        complete == Terminated(lines)
        tail == lines[Len(lines)]
        n == Len(PairedUrls(complete, Len(complete)))
        last == NearestBefore(complete, Len(complete) + 1)
        pending == last # 0 /\ LineKind(complete[last]) = "info"
    IN  /\ buffer = AfterLastLF(fed)
        /\ pc = "feeding" => Len(channels) = n
        /\ pc = "feeding" => (currentInfo # EmptyInfo <=> pending)
        /\ pc = "done" =>
              Len(channels) = n + (IF LineKind(tail) = "url" /\ pending THEN 1 ELSE 0)

\* C6 witness: finalize completed an entry from an unterminated URL line
C6_Witness ==
    /\ pc = "done"
    /\ LineKind(AfterLastLF(fed)) = "url"
    /\ Len(channels) = Len(parseReturns) + 1

\* C6 second case: finalize met an unterminated info line and made no entry of it
C6_WitnessInfoTail ==
    /\ pc = "done"
    /\ LineKind(AfterLastLF(fed)) = "info"
    /\ Len(channels) = Len(parseReturns)
    /\ Len(channels) >= 1

\* C7 as claimed: the parse return values followed by the finalize return value list
\* every entry exactly once
C7_Original ==
    pc = "done" => parseReturns \o lastReturn = channels

\* C7 amended: the parse return values, concatenated, are the entries completed so
\* far; finalize returns the full ordered entry list, which is those entries followed
\* by at most one entry completed from the buffered tail.
C7_ReturnValues ==
    /\ pc = "feeding" =>
          /\ parseReturns = channels
          /\ Len(lastReturn) <= Len(channels)
          /\ lastReturn = SubSeq(channels, Len(channels) - Len(lastReturn) + 1, Len(channels))
    /\ pc = "done" =>
          /\ lastReturn = channels
          /\ Len(parseReturns) <= Len(channels)
          /\ parseReturns = SubSeq(channels, 1, Len(parseReturns))
          /\ Len(channels) - Len(parseReturns) <= 1

\* C7 witness: finalize returned two entries, one returned by a parse call before and
\* one completed from the buffered tail
C7_Witness ==
    /\ pc = "done"
    /\ Len(parseReturns) = 1
    /\ Len(lastReturn) = 2


---------------------------------------------------------------------------
(* Claims on the parse endpoint *)

\* C2 as claimed: byte-level chunk decoding. Decoding the upload chunk by chunk and
\* feeding the parser gives the entries of the whole file decoded at once; a
\* character whose bytes straddle a chunk boundary is reproduced intact.
C2_ChunkDecoding ==
    (pc = "responded" /\ response.status = 200) =>
        response.channels = finalize(parse(NewParser, DecodeWhole(file.bytes)).parser).returned

\* C4 as claimed: no id of one parse run is an id of another run
C4_Original ==
    \A r1, r2 \in 1..Len(issued) :
        r1 # r2 => \A i \in 1..Len(issued[r1]), j \in 1..Len(issued[r2]) :
                       issued[r1][i] # issued[r2][j]

\* C4 amended: within one parse run no id is assigned twice, and every run numbers
\* its entries from channel-0 again.
C4_IdsPerRun ==
    \A r \in 1..Len(issued) :
        /\ \A i, j \in 1..Len(issued[r]) : i # j => issued[r][i] # issued[r][j]
        /\ issued[r] # <<>> => issued[r][1] = ChannelIdOf(0)

\* C4 witness: two runs, each of which assigned two ids
C4_Witness ==
    /\ Len(issued) = 2
    /\ Len(issued[1]) = 2
    /\ Len(issued[2]) = 2


---------------------------------------------------------------------------
(* Claims on the info line and on the round trip *)

\* C8 as claimed: display name from the trailing suffix. For every info line that
\* ends with a ", <text>" suffix, a line with a duration and no attribute included,
\* the entry's display name is <text>, trimmed, and not "Unknown".
C8_SuffixIsDisplayName ==
    (pc = "done" /\ shape.suffix # Undefined) =>
        /\ Len(channels) = 1
        /\ channels[1].tvgName = Trim(shape.suffix)

\* C9 as claimed, on the info lines without trailing text, where the name attribute
\* decides: the display name is the value of the name attribute when the line has
\* one, otherwise "Unknown", and the entry is kept in both cases.
C9_NamePrecedence ==
    (pc = "done" /\ shape.suffix = Undefined) =>
        /\ Len(channels) = 1
        /\ channels[1].tvgName = IF shape.name # Undefined THEN shape.name ELSE Unknown

\* C10 as claimed: round trip. Parsing the generated text gives a list of the same
\* length whose i-th entry has the url, the group name and the display name of the
\* i-th input entry.
C10_RoundTrip ==
    pc = "done" =>
        /\ Len(channels) = Len(shape)
        /\ \A i \in 1..Len(shape) :
              i <= Len(channels) =>
                  /\ channels[i].url = shape[i].url
                  /\ channels[i].groupTitle = shape[i].groupTitle
                  /\ channels[i].tvgName = shape[i].tvgName


---------------------------------------------------------------------------
(* Claims on the groups of the parse endpoint *)

\* the count the summary gives for a group name, 0 when the name has no record
CountIn(groups, name) ==
    LET at == {i \in 1..Len(groups) : groups[i].name = name}
    IN  IF at = {} THEN 0 ELSE groups[CHOOSE i \in at : TRUE].count

\* the number of positions of a list that satisfy a test
HowMany(list, Test(_)) == Cardinality({i \in 1..Len(list) : Test(list[i])})

\* the attribute is left out of the info line
IsAbsent(g) == g = Undefined

\* the attribute is left out, empty, or names the sentinel itself
GivesSentinel(g) == g \in {Undefined, <<>>, Other}

RECURSIVE SumCounts(_)
SumCounts(groups) ==
    IF groups = <<>> THEN 0 ELSE Head(groups).count + SumCounts(Tail(groups))

\* C11 as claimed: the sentinel's count in the group summary equals the number of
\* entries whose info line had no group-title attribute.
C11_Original ==
    (pc = "responded" /\ response.status = 200) =>
        CountIn(response.groups, Other) = HowMany(shape, IsAbsent)

\* C11 amended: every entry has a non-empty group name; an entry whose info line has
\* no group-title attribute, or an empty one, is in the group "Other"; the sentinel's
\* count is the number of entries whose group is "Other", which are the entries whose
\* attribute is left out, empty, or spelled Other, and so is at least the number of
\* entries without the attribute.
C11_GroupDefault ==
    (pc = "responded" /\ response.status = 200) =>
        /\ Len(response.channels) = Len(shape)
        /\ \A i \in 1..Len(response.channels) :
              /\ Truthy(response.channels[i].groupTitle)
              /\ i <= Len(shape) /\ shape[i] \in {Undefined, <<>>} =>
                    response.channels[i].groupTitle = Other
        /\ CountIn(response.groups, Other) = HowMany(shape, GivesSentinel)
        /\ CountIn(response.groups, Other) >= HowMany(shape, IsAbsent)

\* C11 witness: a response for a file with an entry without the attribute, an entry
\* that spells the group Other and an entry of group G
C11_Witness ==
    /\ pc = "responded"
    /\ response.status = 200
    /\ shape = <<Undefined, Other, Group_G>>
    /\ CountIn(response.groups, Other) = 2

\* C12: group summary. One record per distinct group name of the entry list, in the
\* order in which the groups are first met, each count the number of entries of the
\* group, the counts summing to totalChannels, which is the length of the list.
C12_GroupSummary ==
    (pc = "responded" /\ response.status = 200) =>
        LET list == response.channels
            groups == response.groups
            First(name) == CHOOSE k \in 1..Len(list) :
                              /\ list[k].groupTitle = name
                              /\ \A j \in 1..(k - 1) : list[j].groupTitle # name
        IN  /\ \A i, j \in 1..Len(groups) : i # j => groups[i].name # groups[j].name
            /\ {groups[i].name : i \in 1..Len(groups)}
                  = {list[k].groupTitle : k \in 1..Len(list)}
            /\ \A i, j \in 1..Len(groups) :
                  i < j => First(groups[i].name) < First(groups[j].name)
            /\ \A i \in 1..Len(groups) :
                  groups[i].count
                     = Cardinality({k \in 1..Len(list) : list[k].groupTitle = groups[i].name})
            /\ SumCounts(groups) = response.totalChannels
            /\ response.totalChannels = Len(list)

\* C12 witness: the entries are of groups H, G, H: two records, H first with count 2
C12_Witness ==
    /\ pc = "responded"
    /\ response.status = 200
    /\ shape = <<Group_H, Group_G, Group_H>>
    /\ Len(response.groups) = 2
    /\ response.groups[1] = [name |-> Group_H, count |-> 2]


---------------------------------------------------------------------------
(* Claims on the generated text *)

\* the physical lines of a text that ends with a line break
PhysicalLines(text) ==
    LET pieces == SplitLines(text)
    IN  IF pieces[Len(pieces)] = <<>> THEN SubSeq(pieces, 1, Len(pieces) - 1) ELSE pieces

\* C13 as claimed: generator line structure. Whatever characters the fields contain,
\* the text for N entries has exactly 1 + 2N physical lines: the header, then per
\* entry in input order one metadata line and one URL line.
C13_LineStructure ==
    (pc = "feeding") =>
        LET lines == PhysicalLines(input)
        IN  /\ Len(lines) = 1 + 2 * Len(shape)
            /\ lines[1] = ExtM3U
            /\ \A i \in 1..Len(shape) :
                  2 * i + 1 <= Len(lines) =>
                      /\ StartsWith(lines[2 * i], ExtInf)
                      /\ ~StartsWith(lines[2 * i + 1], ExtInf)

\* the metadata line the format rules give an entry: -1, the present attributes in
\* the order name, logo, id, country, language, group, the name attribute carrying
\* the entry's raw name attribute, then a comma and the display name
ClaimedInfoLine(e) ==
    ExtInf \o <<45, 49, 32>>
    \o JoinWithSpace(InfoPart(TvgNameKey, e.tvgNameAttribute)
                     \o InfoPart(TvgLogoKey, e.tvgLogo)
                     \o InfoPart(TvgIdKey, e.tvgId)
                     \o InfoPart(TvgCountryKey, e.tvgCountry)
                     \o InfoPart(TvgLanguageKey, e.tvgLanguage)
                     \o InfoPart(GroupTitleKey, e.groupTitle))
    \o <<44>> \o escapeValue(e.tvgName)

\* C14 as claimed: generator metadata line. The metadata line of an entry is -1, the
\* present optional attributes in the fixed order with quotes replaced, a comma and
\* the display name; the name attribute carries the entry's attributeName and is
\* left out when the entry has none.
C14_MetadataLine ==
    (pc = "feeding" /\ Len(shape) = 1) =>
        PhysicalLines(input)[2] = ClaimedInfoLine(shape[1])


---------------------------------------------------------------------------
(* Claims on the relay *)

\* the relay answered with the 400 that carries the message
Refused(message) ==
    /\ pc = "responded"
    /\ response.status = 400
    /\ response.body = [error |-> message]

\* C15: relay gates precede the outbound request. A fetch is issued only after the
\* url parsed, the scheme was http or https and the hostname passed the guard, in
\* that order; a request that fails a gate gets a 400 and causes no fetch.
C15_GatesBeforeFetch ==
    /\ outbound # <<>> =>
          /\ Len(outbound) = 1
          /\ Len(trail) >= 4
          /\ SubSeq(trail, 1, 4) = <<"url", "protocol", "hostname", "fetch">>
          /\ targetUrl.ok
          /\ targetUrl.protocol \in {<<104, 116, 116, 112, 58>>, <<104, 116, 116, 112, 115, 58>>}
          /\ ~isBlockedHostname(targetUrl.hostname)
          /\ outbound[1].url = targetUrl.href
    /\ (pc = "responded" /\ Truthy(request.url) /\ Len(trail) <= 3) =>
          /\ response.status = 400
          /\ outbound = <<>>
          /\ \/ Len(trail) = 1 /\ ~targetUrl.ok
             \/ Len(trail) = 2 /\ targetUrl.protocol \notin {<<104, 116, 116, 112, 58>>, <<104, 116, 116, 112, 115, 58>>}
             \/ Len(trail) = 3 /\ isBlockedHostname(targetUrl.hostname)
    /\ (pc = "responded" /\ response.status = 400) => outbound = <<>>
    /\ (Truthy(request.url) /\ Len(trail) >= 1 /\ ~targetUrl.ok) => Refused(ErrInvalidUrl)
    /\ (Len(trail) >= 2 /\ targetUrl.protocol \notin {<<104, 116, 116, 112, 58>>, <<104, 116, 116, 112, 115, 58>>}) =>
          Refused(ErrInvalidUrl)

\* C15 witness: a request that passed the three gates, was fetched and answered
C15_Witness ==
    /\ pc = "responded"
    /\ trail = <<"url", "protocol", "hostname", "fetch", "answer">>
    /\ Len(outbound) = 1
    /\ response.status = 200

\* C15 second case: an ftp url stopped at the protocol gate, nothing fetched
C15_WitnessRefused ==
    /\ Refused(ErrInvalidUrl)
    /\ trail = <<"url", "protocol">>
    /\ outbound = <<>>

\* the private and reserved ranges of the table
InBlockedRanges(q) ==
    \/ q[1] = 10
    \/ q[1] = 127
    \/ q[1] = 172 /\ q[2] \in 16..31
    \/ q[1] = 192 /\ q[2] = 168
    \/ q[1] = 169 /\ q[2] = 254
    \/ q[1] = 0

\* C16: SSRF range table. For a dotted quad with parts in 0..255 isBlockedHostname is
\* true exactly for the addresses of 10/8, 127/8, 172.16/12, 192.168/16, 169.254/16
\* and 0/8; localhost is blocked in any letter case; the relay refuses a blocked quad
\* (0.0.0.0 among them) with the blocked-url error and fetches an allowed one
\* (93.184.216.34 among them).
C16_RangeTable ==
    /\ shape # <<>> =>
          /\ isBlockedHostname(QuadText(shape)) = InBlockedRanges(shape)
          /\ Len(trail) >= 3 =>
                IF InBlockedRanges(shape)
                THEN Refused(ErrBlockedUrl) /\ outbound = <<>>
                ELSE ~(pc = "responded" /\ response.status = 400)
          /\ (Len(trail) >= 4 /\ ~InBlockedRanges(shape)) => Len(outbound) = 1
    /\ \A spelling \in {<<108, 111, 99, 97, 108, 104, 111, 115, 116>>, <<76, 79, 67, 65, 76, 72, 79, 83, 84>>, <<76, 111, 99, 97, 108, 72, 111, 115, 116>>} :
          isBlockedHostname(spelling)
    /\ (request.url = <<104, 116, 116, 112, 58, 47, 47, 76, 79, 67, 65, 76, 72, 79, 83, 84, 47, 97>> /\ Len(trail) >= 3) => Refused(ErrBlockedUrl)

\* C16 witness: the request for 0.0.0.0 was refused with the blocked-url error
C16_Witness ==
    /\ shape = <<0, 0, 0, 0>>
    /\ Refused(ErrBlockedUrl)

\* C16 second case: the request for 93.184.216.34 was fetched
C16_WitnessPublic ==
    /\ shape = <<93, 184, 216, 34>>
    /\ Len(outbound) = 1

\* C16 third case: 172.32.0.0, just above 172.16.0.0/12, was fetched
C16_WitnessAbove172Range ==
    /\ shape = <<172, 32, 0, 0>>
    /\ Len(outbound) = 1

\* C17 as claimed: IPv6 loopback is blocked. A request for http://[::1]/... is
\* refused with the blocked-url error and nothing is fetched.
C17_Ipv6LoopbackBlocked ==
    request.url = <<104, 116, 116, 112, 58, 47, 47, 91, 58, 58, 49, 93, 47, 97>> =>
        /\ outbound = <<>>
        /\ Len(trail) >= 3 => Refused(ErrBlockedUrl)

\* C18: upstream status handling. When fetch has resolved and the relay answers, the
\* answer is the 502 that embeds the upstream status exactly when the status is
\* neither 2xx nor 206; otherwise it has the upstream status and the upstream body.
C18_UpstreamStatus ==
    (pc = "responded" /\ Len(trail) = 5) =>
        LET accepted == upstream.status \in 200..299 \/ upstream.status = 206
        IN  /\ ~accepted =>
                  /\ response.status = 502
                  /\ response.body = [error |-> ErrNotDownloaded, status |-> upstream.status]
            /\ accepted =>
                  /\ response.status = upstream.status
                  /\ response.body = upstream.body

\* C18 witness: an upstream 206 passed on as 206
C18_Witness ==
    /\ pc = "responded"
    /\ Len(trail) = 5
    /\ upstream.status = 206
    /\ response.status = 206

\* C18 second case: an upstream 304 answered with 502
C18_WitnessGateway ==
    /\ pc = "responded"
    /\ Len(trail) = 5
    /\ upstream.status = 304
    /\ response.status = 502

\* C19 as claimed: request header forwarding. The fetch carries the caller's Range
\* unchanged, or bytes=0- when the caller sent none, and carries the caller's
\* If-Range whenever the caller sent one.
C19_RequestHeaders ==
    outbound # <<>> =>
        LET sent == outbound[1].headers
        IN  /\ sent["range"] = IF request.range # Undefined THEN request.range
                               ELSE <<98, 121, 116, 101, 115, 61, 48, 45>>
            /\ request.ifRange # Undefined =>
                  /\ "if-range" \in DOMAIN sent
                  /\ sent["if-range"] = request.ifRange

\* the headers a successful relay always sets
AlwaysSet == {"content-disposition", "cache-control", "pragma", "expires"}

\* C20 as claimed: response header pass-through. A successful response carries each of
\* the four headers exactly when the upstream response has it, with its value.
C20_Original ==
    (pc = "responded" /\ Len(trail) = 5 /\ response.status # 502) =>
        \A n \in PassThrough :
            /\ (n \in DOMAIN response.headers) <=> (upstream.headers[n] # Undefined)
            /\ n \in DOMAIN response.headers => response.headers[n] = upstream.headers[n]

\* C20 amended: a successful response carries each of Content-Type, Content-Length,
\* Content-Range and Accept-Ranges exactly when the upstream response has it with a
\* non-empty value, with that value; it always carries Content-Disposition,
\* Cache-Control, Pragma and Expires; no other upstream header reaches the client.
C20_ResponseHeaders ==
    (pc = "responded" /\ Len(trail) = 5 /\ response.status # 502) =>
        /\ \A n \in PassThrough :
              /\ (n \in DOMAIN response.headers) <=>
                    (upstream.headers[n] # Undefined /\ upstream.headers[n] # <<>>)
              /\ n \in DOMAIN response.headers => response.headers[n] = upstream.headers[n]
        /\ AlwaysSet \subseteq DOMAIN response.headers
        /\ response.headers["cache-control"] = <<110, 111, 45, 99, 97, 99, 104, 101, 44, 32, 110, 111, 45, 115, 116, 111, 114, 101, 44, 32, 109, 117, 115, 116, 45, 114, 101, 118, 97, 108, 105, 100, 97, 116, 101>>
        /\ response.headers["pragma"] = <<110, 111, 45, 99, 97, 99, 104, 101>>
        /\ response.headers["expires"] = <<48>>
        /\ StartsWith(response.headers["content-disposition"], <<97, 116, 116, 97, 99, 104, 109, 101, 110, 116, 59, 32, 102, 105, 108, 101, 110, 97, 109, 101, 61, 34>>)
        /\ DOMAIN response.headers \subseteq PassThrough \cup AlwaysSet

\* C20 witness: a successful response that copied Content-Type and has no
\* Content-Range, the upstream having sent none
C20_Witness ==
    /\ pc = "responded"
    /\ Len(trail) = 5
    /\ response.status = 206
    /\ upstream.headers["content-type"] = <<118>>
    /\ upstream.headers["content-range"] = Undefined
    /\ "content-type" \in DOMAIN response.headers
    /\ "content-range" \notin DOMAIN response.headers


---------------------------------------------------------------------------
(* Claims on the endpoint's error paths *)

\* the uploads the parse endpoint is said to refuse
RefusedUpload(upload) ==
    \/ ~upload.present
    \/ /\ ~EndsWith(ToLowerCase(upload.name), DotM3u)
       /\ ~EndsWith(ToLowerCase(upload.name), DotM3u8)
    \/ upload.size > 52428800

\* C21: upload validation precedes parsing. A missing upload, one whose name does
\* not end in .m3u or .m3u8 in any letter case, or one larger than 50 MiB is
\* answered with status 400 and no chunk of it reaches a parser; every other
\* upload, a file of exactly 50 MiB included, is read to its end and parsed.
C21_ValidationFirst ==
    /\ RefusedUpload(file) =>
          /\ pc # "reading"
          /\ offset = 0
          /\ This = NewParser
          /\ pc = "responded" => response.status = 400
    /\ (~RefusedUpload(file) /\ pc = "responded") =>
          /\ response.status = 200
          /\ offset = file.size
          /\ (\A i \in 1..Len(file.bytes) : file.bytes[i] < 128) =>
                response.channels = finalize(parse(NewParser, file.bytes).parser).returned

\* C21 witness: the file of exactly 50 MiB was read to its end and gave its entry
C21_Witness ==
    /\ pc = "responded"
    /\ file.size = 52428800
    /\ response.status = 200
    /\ offset = 52428800
    /\ response.totalChannels = 1

\* C21 witness: an upload of one byte more was refused, and so was the .txt file
C21_WitnessRefused ==
    /\ pc = "responded"
    /\ file.present
    /\ file.size = 52428801 \/ EndsWith(file.name, <<46, 116, 120, 116>>)
    /\ response.status = 400

\* C21 witness: the name in capital letters, a.M3U, was accepted
C21_WitnessUpperCase ==
    /\ pc = "responded"
    /\ EndsWith(file.name, <<46, 77, 51, 85>>)
    /\ response.status = 200
    /\ response.totalChannels = 0

\* C22 as claimed: empty input is a hard failure. An upload of zero bytes is
\* answered with a failure, as an absent upload is, and never with a successful
\* result of zero entries.
C22_EmptyInputRefused ==
    (pc = "responded" /\ file.present /\ file.size = 0) => response.status >= 400


C23_OnlyEmptyListFails ==
    pc = "responded" =>
        LET empty == ~request.listed \/ Len(request.channels) = 0
        IN  /\ response.status = 400 <=> empty
            /\ empty => trail = <<>>
            /\ ~empty => /\ response.status = 200
                         /\ response.body = generateM3UContent(request.channels)

\* the text between the opening quote of filename=" and the closing .m3u" of a
\* Content-Disposition value of the generate endpoint
QuotedName(value) == SubSeq(value, 23, Len(value) - 5)

\* C24 as claimed: the generate endpoint's filename is sanitized. The filename in the
\* Content-Disposition header of every success response has no double quote, no
\* control character, no CR and no LF, and is left as it is by sanitizeFilename.
C24_FilenameSanitized ==
    (pc = "responded" /\ response.status = 200) =>
        LET name == QuotedName(response.headers["content-disposition"])
        IN  /\ \A i \in 1..Len(name) : name[i] \notin FilenameForbidden
            /\ response.headers["content-disposition"] = SanitizedDisposition(name)


\* C25 as claimed: relay internal errors are reported generically. Once the gates
\* have passed, a rejected fetch or a last path segment that cannot be decoded ends
\* in an internal-error response written by the handler; no exception leaves it.
C25_FailuresAnswered ==
    pc # "threw"


\* C26 as claimed: the postcondition of sanitizeFilename. For every name the result
\* is not empty, has at most 160 characters, none of them a control character or one
\* of < > : " / \ | ? *, has no two white space characters in a row and does not end
\* with a dot or a space; and sanitizing the result again changes nothing.
C26_SanitizedName ==
    /\ pc \in {"finalName", "safe"} =>
          /\ lastReturn # <<>>
          /\ Len(lastReturn) <= 160
          /\ \A i \in 1..Len(lastReturn) : lastReturn[i] \notin FilenameForbidden
          /\ \A i \in 1..(Len(lastReturn) - 1) :
                ~(lastReturn[i] \in WhiteSpace /\ lastReturn[i + 1] \in WhiteSpace)
          /\ lastReturn[Len(lastReturn)] \notin {46, 32}
    /\ pc = "safe" => parseReturns = lastReturn


\* C28 as claimed: the two parsers agree. For every playlist text, parseM3U of the
\* page and the server's parser (the whole text in one parse call, then finalize)
\* give lists of the same length whose entries have, position by position, the same
\* id, the same url and the same display name.
C28_ParsersAgree ==
    pc = "done" =>
        /\ Len(parsedChannels) = Len(lastReturn)
        /\ \A i \in 1..Len(lastReturn) :
              /\ parsedChannels[i].id = lastReturn[i].id
              /\ parsedChannels[i].url = lastReturn[i].url
              /\ parsedChannels[i].tvgName = lastReturn[i].tvgName


---------------------------------------------------------------------------
(* Claims on the page *)

\* C29 as claimed: pagination stays in range. Whenever the detail view shows a list
\* of at least one page, the current page is between 1 and totalPages, and so the
\* displayed slice is not empty when the filtered list is not.
C29_PageInRange ==
    (DetailShown /\ totalPages >= 1) =>
        /\ 1 <= currentPage
        /\ currentPage <= totalPages
        /\ displayedChannels # <<>>

\* C30 as claimed: the page never leaves the upload view without content. The view is
\* "categories" or "detail" only while the channel list is not empty.
C30_ViewsHaveContent ==
    view \in {"categories", "detail"} => Len(channels) > 0

=============================================================================
